---- MODULE Spec2Model ----
(***************************************************************************)
(* Process orchestration of Llama-OS (backend/src/process.rs and the       *)
(* cleanup methods of AppState in backend/src/lib.rs).                     *)
(*                                                                         *)
(* State: the metadata map (running_processes), the handle map             *)
(* (child_processes), the per-process ProcessHandle with its mutex, the    *)
(* two map mutexes, the OS processes, and the position of every task:      *)
(* launch_model_server, handle_process_output (the output pump),           *)
(* terminate_process, get_process_logs, cleanup_all_processes and          *)
(* force_cleanup_all_processes.  A task takes one step per await point; a  *)
(* critical section without an await inside is one step.                   *)
(*                                                                         *)
(* The first half of launch_model_server (resolution of the executable,    *)
(* parse_port_from_args, find_available_port, spawn and capture) is a      *)
(* sequence of steps of its own, run in LaunchSpec over every configuration,*)
(* disk, custom_args and set of occupied ports of the bounds below.        *)
(***************************************************************************)
EXTENDS Integers, Sequences, FiniteSets, TLC

\* ---------------------------------------------------------------- bounds
\* launches per behaviour (process identifiers 1..MaxProcs)
MaxProcs == 2
\* output lines one behaviour reads from the streams of one process
MaxLines == 1
\* terminate_process calls per behaviour
MaxTerm == 2
\* calls to terminate_process, cleanup_all_processes and force_cleanup_all_processes
\* per behaviour
MaxCalls == 2
\* LogSpec starts with between MaxOutputLines - LogSlack and MaxOutputLines lines
LogSlack == 1

\* ------------------------------------------------------ program constants
\* process.rs:422  `if process_info.output.len() > 1000`
MaxOutputLines == 1000

ProcIds == 1..MaxProcs
\* an identifier no launch ever issued (a client may pass any string)
UnknownId == 0
Terms == 1..MaxTerm

\* owners of a mutex
Free == <<"free", 0>>
Term(t) == <<"term", t>>
Pump(id) == <<"pump", id>>
Cleanup == <<"cleanup", 0>>
Force == <<"force", 0>>
LaunchTask == <<"launch", 0>>
SaveTask == <<"save", 0>>

VARIABLES
    running_processes,  \* AppState.running_processes: id -> ProcessInfo
    child_processes,    \* AppState.child_processes: the ids that have an entry
    child,              \* ProcessHandle.child of id's handle: "none" (no handle yet), "some", "taken"
    handleRefs,         \* who holds an Arc of id's ProcessHandle: subset of {"map", "pump"}
    childLock,          \* owner of the child_processes mutex
    runLock,            \* owner of the running_processes mutex
    handleLock,         \* id -> owner of the Mutex<ProcessHandle>
    os,                 \* id -> "none" | "alive" | "exited" | "killed"
    streams,            \* id -> the streams the process still holds open, subset of {"out", "err"}
    nextId,             \* next identifier Uuid::new_v4 hands out
    launchPc,           \* id -> position of the launch_model_server call that issued id
    pumpPc,             \* id -> position of handle_process_output
    pumpCode,           \* id -> exit_code local of the pump
    emitted,            \* id -> lines the pump has read so far (arrival index of the last one)
    base,               \* id -> value of emitted[id] in the initial state
    termPc, termId,     \* position and argument of each terminate_process call
    termFound,          \* history: the call got the handle out of the map (process.rs:437)
    termKilled,         \* history: the call ran child.kill() (process.rs:440)
    termResult,         \* what the call returned
    caPc, caQueue,      \* cleanup_all_processes: position, entries of drain() not yet visited
    caDrained,          \* history: the ids drain() yielded
    fcPc, fcQueue,      \* force_cleanup_all_processes: position, entries of iter() not yet visited
    fcSteps,            \* history: steps force_cleanup_all_processes has taken
    fcFailed,           \* history: its try_lock of child_processes failed
    pollResult,         \* what the last get_process_logs call returned
    unsent,             \* history: id -> lines pushed to the log since the previous get_process_logs(id)
    polled,             \* history: id -> get_process_logs(id) has returned Ok before
    config,             \* AppState.config: the active executable folder and version
    saved,              \* history: the configurations save_settings has persisted
    env,                \* what a launch finds: the disk, the model's configuration, the ports in use
    launch,             \* locals and result of the launch_model_server call under way
    calls,              \* concurrent launch_model_server calls: position, port and server of each
    external,           \* launch_model_external: the servers it has started, its last result
    settings            \* the config and model_configs mutexes, and the calls that take them

vars == <<running_processes, child_processes, child, handleRefs, childLock, runLock,
          handleLock, os, streams, nextId, launchPc, pumpPc, pumpCode, emitted, base,
          termPc, termId, termFound, termKilled, termResult, caPc, caQueue, caDrained,
          fcPc, fcQueue, fcSteps, fcFailed, pollResult, unsent, polled,
          config, saved, env, launch, calls, external, settings>>

procVars == <<os, streams>>
launchVars == <<nextId, launchPc>>
pumpVars == <<pumpPc, pumpCode, emitted, base>>
termVars == <<termPc, termId, termFound, termKilled, termResult>>
caVars == <<caPc, caQueue, caDrained>>
fcVars == <<fcPc, fcQueue, fcSteps, fcFailed>>
pollVars == <<pollResult, polled>>
lockVars == <<childLock, runLock, handleLock>>
handleVars == <<child, handleRefs>>
setupVars == <<config, saved, env, launch, calls, external, settings>>

\* ------------------------------------------------------------ map helpers
\* HashMap::insert
MapInsert(m, k, v) == [i \in DOMAIN m \cup {k} |-> IF i = k THEN v ELSE m[i]]
\* HashMap::remove
MapRemove(m, k) == [i \in DOMAIN m \ {k} |-> m[i]]
EmptyMap == [i \in {} |-> 0]

\* the last n elements of s (Vec::drain(0..len - n) keeps them)
LastN(s, n) == IF Len(s) <= n THEN s ELSE SubSeq(s, Len(s) - n + 1, Len(s))

\* ----------------------------------------------------------- ProcessInfo
\* process.rs:192-203: the record launch_model_server inserts
NewProcessInfo == [status |-> "Starting", output |-> <<>>, last_sent_line |-> 0]

\* process.rs:360 / 373: format!("[OUT] {}", line), format!("[INFO] {}", line);
\* the text of a line is its arrival index
FormatLine(tag, n) == <<tag, n>>
\* process.rs:404: format!("Process exited with code: {}", exit_code)
ExitMsg(code) == <<"EXIT", code>>

\* an add_output_line that never drops the oldest lines
AddOutputLineNoTrim(procs, id, line) ==
    IF id \in DOMAIN procs
    THEN [procs EXCEPT ![id].output = Append(@, line)]
    ELSE procs

\* an add_output_line that starts the log over when it is full
AddOutputLineRestart(procs, id, line) ==
    IF id \in DOMAIN procs
    THEN LET pushed == Append(procs[id].output, line)
         IN [procs EXCEPT ![id].output = IF Len(pushed) > MaxOutputLines
                                         THEN <<line>> ELSE pushed]
    ELSE procs

\* process.rs:417-426 add_output_line, the body under the lock
AddOutputLine(procs, id, line) ==
    IF id \in DOMAIN procs
    THEN LET pushed == Append(procs[id].output, line)
             kept == IF Len(pushed) > MaxOutputLines
                     THEN LastN(pushed, MaxOutputLines)
                     ELSE pushed
         IN [procs EXCEPT ![id].output = kept]
    ELSE procs

\* process.rs:355-384: add_output_line for each of the lines, in the order read
RECURSIVE AddOutputLines(_, _, _)
AddOutputLines(procs, id, lines) ==
    IF id \notin DOMAIN procs \/ lines = <<>> THEN procs
    ELSE IF Len(lines) = 1 THEN AddOutputLine(procs, id, lines[1])
    ELSE LET half == Len(lines) \div 2
             first == AddOutputLines(procs, id, SubSeq(lines, 1, half))
         IN AddOutputLines(first, id, SubSeq(lines, half + 1, Len(lines)))

\* a pump that sets Running through an entry it creates when the record is gone
SetRunningOrInsert(procs, id) ==
    LET entry == IF id \in DOMAIN procs THEN procs[id]
                 ELSE [status |-> "Starting", output |-> <<>>, last_sent_line |-> 0,
                       port |-> 0, command |-> <<>>]
    IN [i \in DOMAIN procs \cup {id} |->
            IF i = id THEN [entry EXCEPT !.status = "Running"] ELSE procs[i]]

\* process.rs:349-352: the pump's first critical section
SetRunning(procs, id) ==
    IF id \in DOMAIN procs THEN [procs EXCEPT ![id].status = "Running"] ELSE procs

\* a pump that records a child it could not take or wait for as Failed
MarkFailedOnError(procs, id, code) ==
    IF id \in DOMAIN procs
    THEN [procs EXCEPT ![id].status = IF code = -1 THEN "Failed" ELSE "Stopped",
                       ![id].output = Append(@, ExitMsg(code))]
    ELSE procs

\* process.rs:401-406: the pump's last critical section on the metadata map
MarkStopped(procs, id, code) ==
    IF id \in DOMAIN procs
    THEN [procs EXCEPT ![id].status = "Stopped",
                       ![id].output = Append(@, ExitMsg(code))]
    ELSE procs

\* a terminate_process that marks the record Stopped and keeps it
TerminateRecordKeep(procs, id) ==
    IF id \in DOMAIN procs THEN [procs EXCEPT ![id].status = "Stopped"] ELSE procs

\* a terminate_process that clears the metadata map
TerminateRecordAll(procs, id) == EmptyMap

\* process.rs:450-454 terminate_process, the body under the running_processes lock:
\* the status is set to Stopped and the record is removed in the same section
TerminateRecord(procs, id) ==
    LET marked == IF id \in DOMAIN procs
                  THEN [procs EXCEPT ![id].status = "Stopped"]
                  ELSE procs
    IN MapRemove(marked, id)

\* a get_process_logs that forgets to move the cursor
LogsCursorStuck(info) ==
    LET total_lines == Len(info.output)
        last_sent == info.last_sent_line
    IN IF last_sent < total_lines
       THEN [new_output |-> SubSeq(info.output, last_sent + 1, total_lines), info |-> info]
       ELSE [new_output |-> <<>>, info |-> info]

\* process.rs:468-478 get_process_logs on a record: the new lines and the updated record
Logs(info) ==
    LET total_lines == Len(info.output)
        last_sent == info.last_sent_line
    IN IF last_sent < total_lines
       THEN [new_output |-> SubSeq(info.output, last_sent + 1, total_lines),
             info |-> [info EXCEPT !.last_sent_line = total_lines]]
       ELSE [new_output |-> <<>>, info |-> info]

\* process.rs:466, 485: processes.get_mut(&process_id) finds the record
RecordFound(procs, id) == id \in DOMAIN procs

\* an is_running that does not count a process that is still starting
IsRunningOnly(info) == info.status = "Running"

\* process.rs:482: matches!(status, Running | Starting)
IsRunning(info) == info.status \in {"Running", "Starting"}

\* the lines pushed to id's log since the previous poll (history)
Pushed(u, procs, id, line) ==
    IF id \in DOMAIN procs THEN [u EXCEPT ![id] = Append(@, line)] ELSE u

\* ------------------------------------------------------------ OS process
Dead(id) == os[id] \in {"exited", "killed"}

\* Child::kill / kill -9: the process dies and its ends of the pipes close
KillOs(o, id) == IF o[id] = "alive" THEN [o EXCEPT ![id] = "killed"] ELSE o
CloseAll(s, id) == [s EXCEPT ![id] = {}]

\* process.rs:391: status.code().unwrap_or(-1); a process ended by a signal has no code
ExitCode(id) == IF os[id] = "exited" THEN 0 ELSE -1

\* ------------------------------------------------------------ Option<T>
\* None and Some(x) as sequences of length 0 and 1
None == <<>>
Some(x) == <<x>>

\* ------------------------------------------------------- paths and disk
\* a path is the sequence of its components; Path::join appends one
Join(path, name) == Append(path, name)

\* process.rs:19 exe_name (the not(windows) value)
ExeName == "llama-server"
\* GlobalConfig.executable_folder
ExecutableFolder == <<"exec">>
\* a folder outside executable_folder that active_executable_folder may name
OtherFolder == <<"opt">>
\* names of subdirectories executable_folder/versions may hold, and of one
\* version that is not installed
Versions == {"v1", "v2", "v3"}
MissingVersion == "v0"
\* String::cmp on the names above
NameRank(name) ==
    CASE name = "v0" -> 0
      [] name = "v1" -> 1
      [] name = "v2" -> 2
      [] OTHER -> 3

\* process.rs:37 versions_dir, and one subdirectory of it
VersionsDir == Join(ExecutableFolder, "versions")
VersionDir(name) == Join(VersionsDir, name)

\* Path::exists on the disk e
Exists(e, path) == path \in e.files

\* a preferred path that lets the active folder win over the version name
PreferredPathFolderFirst(global_config) ==
    IF global_config.active_executable_folder # None
    THEN Join(global_config.active_executable_folder[1], ExeName)
    ELSE IF global_config.active_executable_version # None
         THEN Join(VersionDir(global_config.active_executable_version[1]), ExeName)
         ELSE Join(ExecutableFolder, ExeName)

\* process.rs:21-30: the preferred path
PreferredPath(global_config) ==
    IF global_config.active_executable_version # None
    THEN Join(VersionDir(global_config.active_executable_version[1]), ExeName)
    ELSE IF global_config.active_executable_folder # None
         THEN Join(global_config.active_executable_folder[1], ExeName)
         ELSE Join(ExecutableFolder, ExeName)

\* a scan that takes every subdirectory, with or without the executable
CandidatesAnyDir(e) ==
    [i \in 1..Len(e.subdirs) |-> [name |-> e.subdirs[i], created |-> e.created[e.subdirs[i]]]]

\* process.rs:38-55: the subdirectories that hold the executable, in the order
\* read_dir yields them, each with its creation time (an Option)
Candidates(e) ==
    LET holds(name) == Exists(e, Join(VersionDir(name), ExeName))
        found == SelectSeq(e.subdirs, holds)
    IN [i \in 1..Len(found) |-> [name |-> found[i], created |-> e.created[found[i]]]]

\* Ord::cmp on integers
Cmp(x, y) == IF x < y THEN "Less" ELSE IF x > y THEN "Greater" ELSE "Equal"

\* a comparator that puts the oldest creation time first
CompareOldestFirst(a, b) ==
    IF a.created # None /\ b.created # None THEN Cmp(a.created[1], b.created[1])
    ELSE IF a.created # None THEN "Less"
    ELSE IF b.created # None THEN "Greater"
    ELSE Cmp(NameRank(b.name), NameRank(a.name))

\* process.rs:58-63: the closure given to sort_by
Compare(a, b) ==
    IF a.created # None /\ b.created # None THEN Cmp(b.created[1], a.created[1])
    ELSE IF a.created # None THEN "Less"
    ELSE IF b.created # None THEN "Greater"
    ELSE Cmp(NameRank(b.name), NameRank(a.name))

\* x put before the first element that compares greater than it
InsertSorted(sorted, x) ==
    LET after == {i \in 1..Len(sorted) : Compare(x, sorted[i]) = "Less"}
        k == IF after = {} THEN Len(sorted) + 1
             ELSE CHOOSE i \in after : \A j \in after : i <= j
    IN SubSeq(sorted, 1, k - 1) \o <<x>> \o SubSeq(sorted, k, Len(sorted))

\* process.rs:58 Vec::sort_by, a stable sort
RECURSIVE SortBy(_)
SortBy(s) ==
    IF s = <<>> THEN <<>>
    ELSE InsertSorted(SortBy(SubSeq(s, 1, Len(s) - 1)), s[Len(s)])

\* process.rs:12-85 resolve_llama_server_path_with_fallback: the path returned,
\* the candidate made active (an Option), and whether the versions were scanned
resolve_llama_server_path_with_fallback(global_config, e) ==
    LET preferred == PreferredPath(global_config)
        candidates == SortBy(Candidates(e))
    IN IF Exists(e, preferred)
       THEN [path |-> preferred, chosen |-> None, scanned |-> FALSE]
       ELSE IF candidates # <<>>
            THEN [path |-> Join(VersionDir(candidates[1].name), ExeName),
                  chosen |-> Some(candidates[1].name), scanned |-> TRUE]
            ELSE [path |-> preferred, chosen |-> None, scanned |-> TRUE]

\* process.rs:67-77: the configuration after the candidate is made active
Activate(cfg, name) ==
    [cfg EXCEPT !.active_executable_folder = Some(VersionDir(name)),
                !.active_executable_version = Some(name)]

\* ----------------------------------------------------------- custom_args
\* a string is a sequence of pieces, each piece a run of characters
ArgPieces == {"--port", "=", " ", "9001", "70000", "x"}
\* the characters of the decimal digits 0 to 9, in order
DigitChars == <<"0", "1", "2", "3", "4", "5", "6", "7", "8", "9">>
\* the decimal digits of a piece made of digits: their value and how many
Digits(piece) ==
    CASE piece = "9001" -> [value |-> 9001, len |-> 4]
      [] piece = "70000" -> [value |-> 70000, len |-> 5]
      [] \E d \in 1..10 : DigitChars[d] = piece ->
             [value |-> (CHOOSE d \in 1..10 : DigitChars[d] = piece) - 1, len |-> 1]
      [] OTHER -> [value |-> 0, len |-> 0]
IsDigits(piece) == Digits(piece).len > 0

RECURSIVE Pow10(_)
Pow10(n) == IF n = 0 THEN 1 ELSE 10 * Pow10(n - 1)

\* process.rs:530 the port type is u16
U16Max == 65535

\* the number a run of digit pieces spells, as the checked arithmetic of
\* str::parse::<u16> computes it: anything above u16::MAX is an overflow,
\* given as U16Max + 1
RECURSIVE Decimal(_)
Decimal(str) ==
    IF str = <<>> THEN 0
    ELSE LET last == Digits(str[Len(str)])
             front == Decimal(SubSeq(str, 1, Len(str) - 1))
         IN IF front > U16Max \div Pow10(last.len) THEN U16Max + 1
            ELSE IF front * Pow10(last.len) + last.value > U16Max THEN U16Max + 1
            ELSE front * Pow10(last.len) + last.value

\* str::find of one piece: the index of its first occurrence, 0 for None
Find(str, piece) ==
    LET at == {i \in 1..Len(str) : str[i] = piece}
    IN IF at = {} THEN 0 ELSE CHOOSE i \in at : \A j \in at : i <= j

\* &str[from..] with pieces counted from 1
From(str, from) == SubSeq(str, from, Len(str))

\* str::trim_start
RECURSIVE TrimStart(_)
TrimStart(str) ==
    IF str # <<>> /\ str[1] = " " THEN TrimStart(Tail(str)) ELSE str

\* process.rs:497-501, 505-509: the text up to the first space
UpToSpace(str) ==
    LET space_pos == Find(str, " ")
    IN IF space_pos # 0 THEN SubSeq(str, 1, space_pos - 1) ELSE str

\* str::parse::<u16>: Some(value) for a non-empty run of digits no larger than
\* u16::MAX, None otherwise
ParseU16(str) ==
    IF str # <<>> /\ (\A i \in 1..Len(str) : IsDigits(str[i])) /\ Decimal(str) <= U16Max
    THEN Some(Decimal(str))
    ELSE None

\* process.rs:490-517 parse_port_from_args
parse_port_from_args(custom_args, default_port) ==
    LET port_pos == Find(custom_args, "--port")
        after_port == From(custom_args, port_pos + 1)
        port_str == IF after_port # <<>> /\ after_port[1] = "="
                    THEN UpToSpace(Tail(after_port))
                    ELSE UpToSpace(TrimStart(after_port))
    IN IF port_pos # 0 /\ ParseU16(port_str) # None
       THEN ParseU16(port_str)[1]
       ELSE default_port

\* the characters parse_custom_args tells apart from the rest
Space == " "
DoubleQuote == "\""
SingleQuote == "'"
IsQuote(ch) == ch \in {DoubleQuote, SingleQuote}

\* a tokenizer in which a quote is closed only by the quote that opened it
RECURSIVE SplitPairedQuotes(_, _, _, _)
SplitPairedQuotes(chars, open, current_arg, args) ==
    IF chars = <<>>
    THEN IF current_arg # <<>> THEN Append(args, current_arg) ELSE args
    ELSE LET ch == chars[1]
             rest == Tail(chars)
         IN IF IsQuote(ch) /\ open = <<>>
            THEN SplitPairedQuotes(rest, <<ch>>, current_arg, args)
            ELSE IF open = <<ch>>
            THEN SplitPairedQuotes(rest, <<>>, current_arg, args)
            ELSE IF ch = Space /\ open = <<>>
            THEN IF current_arg # <<>>
                 THEN SplitPairedQuotes(rest, open, <<>>, Append(args, current_arg))
                 ELSE SplitPairedQuotes(rest, open, current_arg, args)
            ELSE SplitPairedQuotes(rest, open, Append(current_arg, ch), args)

\* process.rs:549-567: the loop of parse_custom_args over the characters left
RECURSIVE SplitArgs(_, _, _, _)
SplitArgs(chars, in_quotes, current_arg, args) ==
    IF chars = <<>>
    THEN IF current_arg # <<>> THEN Append(args, current_arg) ELSE args
    ELSE LET ch == chars[1]
             rest == Tail(chars)
         IN IF IsQuote(ch) /\ ~in_quotes
            THEN SplitArgs(rest, TRUE, current_arg, args)
            ELSE IF IsQuote(ch) /\ in_quotes
            THEN SplitArgs(rest, FALSE, current_arg, args)
            ELSE IF ch = Space /\ ~in_quotes
            THEN IF current_arg # <<>>
                 THEN SplitArgs(rest, in_quotes, <<>>, Append(args, current_arg))
                 ELSE SplitArgs(rest, in_quotes, current_arg, args)
            ELSE SplitArgs(rest, in_quotes, Append(current_arg, ch), args)

\* process.rs:543-574 parse_custom_args: the tokens, each a string
parse_custom_args(custom_args) == SplitArgs(custom_args, FALSE, <<>>, <<>>)

\* process.rs:174-177: the custom arguments given to the command; str::trim
\* leaves nothing of a string of spaces
CustomArgs(custom_args) ==
    IF TrimStart(custom_args) # <<>> THEN parse_custom_args(custom_args) ELSE <<>>

\* u16::to_string (process.rs:164): the decimal digits, most significant first
RECURSIVE PortToString(_)
PortToString(n) ==
    IF n < 10 THEN <<DigitChars[n + 1]>>
    ELSE Append(PortToString(n \div 10), DigitChars[(n % 10) + 1])

\* Path::to_string_lossy: the components with a separator between them
RECURSIVE PathText(_)
PathText(path) ==
    IF Len(path) <= 1 THEN path
    ELSE PathText(SubSeq(path, 1, Len(path) - 1)) \o <<"/", path[Len(path)]>>

\* ModelConfig.model_path of the model launched, and models.rs:42 server_host
ModelPath == <<"model.gguf">>
ServerHost == <<"127.0.0.1">>

\* process.rs:161-177: the arguments given to the command, in order
CommandArgs(final_port, custom_args) ==
    <<<<"-m">>, ModelPath, <<"--host">>, ServerHost, <<"--port">>, PortToString(final_port)>>
        \o CustomArgs(custom_args)

\* ------------------------------------------------------------ the ports
\* process.rs:519-528 is_port_available: the bind succeeds
is_port_available(e, port) == port \notin e.occupied

\* process.rs:535 `if port-start_port > 10`
ProbeLimit == 10
\* an arithmetic overflow in a build with overflow checks: the call panics
Panic == -1

\* an allocator that gives up one port early
ProbeLimitShort == ProbeLimit - 1
\* process.rs:535: the distance after which the search gives up
GiveUpAfter == ProbeLimit

\* process.rs:532-539: the loop of find_available_port from `port` on.  In
\* u16 arithmetic `port += 1` overflows at u16::MAX and `port-start_port`
\* underflows after a wrap: a panic with overflow checks, a wrap without
RECURSIVE ProbeFrom(_, _, _)
ProbeFrom(e, start_port, port) ==
    IF is_port_available(e, port) THEN port
    ELSE IF e.overflow_checks /\ port = U16Max THEN Panic
    ELSE LET next == (port + 1) % (U16Max + 1)
         IN IF e.overflow_checks /\ next < start_port THEN Panic
            ELSE IF (next - start_port) % (U16Max + 1) > GiveUpAfter THEN start_port
            ELSE ProbeFrom(e, start_port, next)

\* process.rs:530-541 find_available_port
find_available_port(e, start_port) == ProbeFrom(e, start_port, start_port)

\* ------------------------------------------------ what a launch finds
\* the configuration, disk and ports of a machine where the configured server
\* is installed and its port is free
DefaultConfig == [active_executable_folder |-> None, active_executable_version |-> None]
DefaultEnv ==
    [files |-> {Join(ExecutableFolder, ExeName)},
     subdirs |-> <<>>,
     created |-> [v \in Versions |-> None],
     custom_args |-> <<>>,
     server_port |-> 8080,
     occupied |-> {},
     overflow_checks |-> FALSE]

\* no launch_model_server call traced yet
NoLaunch == [pc |-> "idle", executable_path |-> <<>>, scanned |-> FALSE,
             requested_port |-> 0, final_port |-> 0, custom_args |-> <<>>,
             args |-> <<>>, result |-> "none"]

\* ------------------------------------------------------------------ Init
\* ok, output, is_running: the Result and the ProcessOutput returned; history:
\* n and expected (the lines pushed since the previous call and how many they
\* are), advance (how far the cursor moved), again (the call was not the
\* first Ok one for id), same_log (the call left status and output alone)
NoPoll == [id |-> UnknownId, ok |-> FALSE, output |-> <<>>, is_running |-> FALSE,
           n |-> 0, expected |-> <<>>, advance |-> 0, again |-> FALSE, same_log |-> TRUE]

\* no concurrent launch_model_server call made yet
NoCalls == [c \in ProcIds |-> [pc |-> "idle", final_port |-> 0, id |-> UnknownId,
                               server |-> "none"]]

\* process.rs:326: the process_id launch_model_external returns, a fixed string
\* that is never a key of either map; the calls a client makes with it are
\* the calls with UnknownId
ExternalId == UnknownId

\* no launch_model_external call made yet
NoExternal == [servers |-> 0, result |-> "none", process_id |-> UnknownId, server_port |-> 0]

\* lib.rs:55-64: the config and model_configs mutexes are free; no launch has
\* read the configuration and no save_settings call is under way
NoSettings == [configLock |-> Free, modelLock |-> Free, readPc |-> "idle",
               savePc |-> "idle", global_config |-> None]

\* AppState::new (lib.rs:55-64): both maps empty, nothing launched, no call made
NothingLaunched ==
    /\ running_processes = EmptyMap
    /\ child_processes = {}
    /\ child = [i \in ProcIds |-> "none"]
    /\ handleRefs = [i \in ProcIds |-> {}]
    /\ childLock = Free
    /\ runLock = Free
    /\ handleLock = [i \in ProcIds |-> Free]
    /\ os = [i \in ProcIds |-> "none"]
    /\ streams = [i \in ProcIds |-> {}]
    /\ nextId = 1
    /\ launchPc = [i \in ProcIds |-> "none"]
    /\ pumpPc = [i \in ProcIds |-> "none"]
    /\ pumpCode = [i \in ProcIds |-> 0]
    /\ emitted = [i \in ProcIds |-> 0]
    /\ base = [i \in ProcIds |-> 0]
    /\ termPc = [t \in Terms |-> "idle"]
    /\ termId = [t \in Terms |-> UnknownId]
    /\ termFound = [t \in Terms |-> FALSE]
    /\ termKilled = [t \in Terms |-> FALSE]
    /\ termResult = [t \in Terms |-> "none"]
    /\ caPc = "idle"
    /\ caQueue = {}
    /\ caDrained = {}
    /\ fcPc = "idle"
    /\ fcQueue = {}
    /\ fcSteps = 0
    /\ fcFailed = FALSE
    /\ pollResult = NoPoll
    /\ unsent = [i \in ProcIds |-> <<>>]
    /\ polled = [i \in ProcIds |-> FALSE]
    /\ saved = <<>>
    /\ launch = NoLaunch
    /\ calls = NoCalls
    /\ external = NoExternal
    /\ settings = NoSettings

\* the application starts on a machine where the configured server is installed
Init ==
    /\ NothingLaunched
    /\ config = DefaultConfig
    /\ env = DefaultEnv

\* the identifiers a client knows: launch_model_server returned them
Returned == {i \in ProcIds : launchPc[i] = "done"}

\* ------------------------------------------------------- ProcessHandle
\* a terminate_process that looks the handle up and leaves the entry in the map
RemoveHandleKeep(m, id) == m

\* process.rs:437 child_processes.remove(&process_id): the map afterwards
RemoveHandle(m, id) == m \ {id}

\* process.rs:103-105 take_child: Option::take
TakeChild(c) == IF c = "some" THEN "taken" ELSE c

\* an Arc<Mutex<ProcessHandle>> goes away; when it was the last one the
\* ProcessHandle is dropped, and a child still inside it is dropped with
\* kill_on_drop(true) (process.rs:118-127, 167)
DropsChild(id, gone) == handleRefs[id] # {} /\ handleRefs[id] \subseteq gone /\ child[id] = "some"

\* ------------------------------------------------ launch_model_server
\* process.rs:133-209: configuration read, executable resolved, port chosen,
\* process spawned with piped stdout and stderr, identifier issued, and the
\* record inserted into the metadata map.  Nothing can observe the process
\* between spawn() and the insert, so the wait for the lock at line 207 is
\* taken before the spawn.
LaunchSpawn ==
    /\ nextId <= MaxProcs
    /\ runLock = Free
    /\ os' = [os EXCEPT ![nextId] = "alive"]
    /\ streams' = [streams EXCEPT ![nextId] = {"out", "err"}]
    /\ running_processes' = MapInsert(running_processes, nextId, NewProcessInfo)
    /\ launchPc' = [launchPc EXCEPT ![nextId] = "registered"]
    /\ nextId' = nextId + 1
    /\ UNCHANGED <<child_processes, handleVars, lockVars, pumpVars,
                   termVars, caVars, fcVars, pollVars, setupVars, unsent>>

\* process.rs:212-234: the handle enters the handle map, the pump is spawned
\* with its own Arc of the handle, and launch returns
LaunchInsertHandle(id) ==
    /\ launchPc[id] = "registered"
    /\ childLock = Free
    /\ child_processes' = child_processes \cup {id}
    /\ child' = [child EXCEPT ![id] = "some"]
    /\ handleRefs' = [handleRefs EXCEPT ![id] = {"map", "pump"}]
    /\ pumpPc' = [pumpPc EXCEPT ![id] = "start"]
    /\ launchPc' = [launchPc EXCEPT ![id] = "done"]
    /\ UNCHANGED <<running_processes, lockVars, procVars, nextId, pumpCode, emitted, base,
                   termVars, caVars, fcVars, pollVars, setupVars, unsent>>

\* ------------------------------------------------------- the OS process
\* the server exits by itself; both pipes close
ProcExit(id) ==
    /\ os[id] = "alive"
    /\ os' = [os EXCEPT ![id] = "exited"]
    /\ streams' = CloseAll(streams, id)
    /\ UNCHANGED <<running_processes, child_processes, handleVars, lockVars, launchVars,
                   pumpVars, termVars, caVars, fcVars, pollVars, setupVars, unsent>>

\* the server closes one of its output streams and keeps running
ProcCloseStream(id, s) ==
    /\ os[id] = "alive"
    /\ s \in streams[id]
    /\ streams' = [streams EXCEPT ![id] = @ \ {s}]
    /\ UNCHANGED <<running_processes, child_processes, handleVars, lockVars, os, launchVars,
                   pumpVars, termVars, caVars, fcVars, pollVars, setupVars, unsent>>

\* ------------------------------------------------ handle_process_output
\* process.rs:347-353
PumpStart(id) ==
    /\ pumpPc[id] = "start"
    /\ runLock = Free
    /\ running_processes' = SetRunning(running_processes, id)
    /\ pumpPc' = [pumpPc EXCEPT ![id] = "loop"]
    /\ UNCHANGED <<child_processes, handleVars, lockVars, procVars, launchVars, pumpCode,
                   emitted, base, termVars, caVars, fcVars, pollVars, setupVars, unsent>>

\* process.rs:357-362 (tag "OUT") and 370-375 (tag "INFO"): one line read from a
\* pipe (written before the process ended, if it has) and appended by add_output_line
PumpLine(id, tag) ==
    /\ pumpPc[id] = "loop"
    /\ emitted[id] - base[id] < MaxLines
    /\ runLock = Free
    /\ LET line == FormatLine(tag, emitted[id] + 1)
       IN /\ running_processes' = AddOutputLine(running_processes, id, line)
          /\ unsent' = Pushed(unsent, running_processes, id, line)
    /\ emitted' = [emitted EXCEPT ![id] = @ + 1]
    /\ UNCHANGED <<child_processes, handleVars, lockVars, procVars, launchVars, pumpPc,
                   pumpCode, base, termVars, caVars, fcVars, pollVars, setupVars>>

\* process.rs:363 / 376: Ok(None) on either stream ends the loop
PumpEof(id, s) ==
    /\ pumpPc[id] = "loop"
    /\ s \notin streams[id]
    /\ pumpPc' = [pumpPc EXCEPT ![id] = "lock"]
    /\ UNCHANGED <<running_processes, child_processes, handleVars, lockVars, procVars,
                   launchVars, pumpCode, emitted, base, termVars, caVars, fcVars, pollVars, setupVars,
                   unsent>>

\* process.rs:364-367 / 377-380: a read error (a line that is not UTF-8) ends the loop
PumpReadError(id) ==
    /\ pumpPc[id] = "loop"
    /\ pumpPc' = [pumpPc EXCEPT ![id] = "lock"]
    /\ UNCHANGED <<running_processes, child_processes, handleVars, lockVars, procVars,
                   launchVars, pumpCode, emitted, base, termVars, caVars, fcVars, pollVars, setupVars,
                   unsent>>

\* process.rs:388-389, 394-396: lock the handle, take the child
PumpLock(id) ==
    /\ pumpPc[id] = "lock"
    /\ handleLock[id] = Free
    /\ child' = [child EXCEPT ![id] = TakeChild(@)]
    /\ IF child[id] = "some"
       THEN /\ handleLock' = [handleLock EXCEPT ![id] = Pump(id)]
            /\ pumpPc' = [pumpPc EXCEPT ![id] = "wait"]
            /\ UNCHANGED pumpCode
       ELSE /\ pumpCode' = [pumpCode EXCEPT ![id] = -1]
            /\ pumpPc' = [pumpPc EXCEPT ![id] = "mark"]
            /\ UNCHANGED handleLock
    /\ UNCHANGED <<running_processes, child_processes, handleRefs, childLock, runLock,
                   procVars, launchVars, emitted, base, termVars, caVars, fcVars, pollVars, setupVars,
                   unsent>>

\* a pump that keeps the guard of its handle after the wait
HandleGuardKept(locks, id) == locks

\* process.rs:397: the block ends and handle_guard goes out of scope
HandleGuardDropped(locks, id) == [locks EXCEPT ![id] = Free]

\* process.rs:390-393: child.wait() returns once the process has ended; the
\* handle lock is held until then (a failing wait gives -1, as a signal does)
PumpWait(id) ==
    /\ pumpPc[id] = "wait"
    /\ Dead(id)
    /\ pumpCode' = [pumpCode EXCEPT ![id] = ExitCode(id)]
    /\ handleLock' = HandleGuardDropped(handleLock, id)
    /\ pumpPc' = [pumpPc EXCEPT ![id] = "mark"]
    /\ UNCHANGED <<running_processes, child_processes, handleVars, childLock, runLock,
                   procVars, launchVars, emitted, base, termVars, caVars, fcVars, pollVars, setupVars,
                   unsent>>

\* process.rs:399-407
PumpMark(id) ==
    /\ pumpPc[id] = "mark"
    /\ runLock = Free
    /\ running_processes' = MarkStopped(running_processes, id, pumpCode[id])
    /\ unsent' = Pushed(unsent, running_processes, id, ExitMsg(pumpCode[id]))
    /\ pumpPc' = [pumpPc EXCEPT ![id] = "remove"]
    /\ UNCHANGED <<child_processes, handleVars, lockVars, procVars, launchVars, pumpCode,
                   emitted, base, termVars, caVars, fcVars, pollVars, setupVars>>

\* process.rs:409-415: the entry leaves the handle map, the pump's own Arc goes
PumpRemove(id) ==
    /\ pumpPc[id] = "remove"
    /\ childLock = Free
    /\ child_processes' = child_processes \ {id}
    /\ LET gone == {"pump"} \cup (IF id \in child_processes THEN {"map"} ELSE {})
       IN /\ handleRefs' = [handleRefs EXCEPT ![id] = @ \ gone]
          /\ os' = IF DropsChild(id, gone) THEN KillOs(os, id) ELSE os
          /\ streams' = IF DropsChild(id, gone) THEN CloseAll(streams, id) ELSE streams
    /\ pumpPc' = [pumpPc EXCEPT ![id] = "done"]
    /\ UNCHANGED <<running_processes, child, lockVars, launchVars, pumpCode, emitted, base,
                   termVars, caVars, fcVars, pollVars, setupVars, unsent>>

\* ------------------------------------------------------------ clients
\* the calls to terminate_process, cleanup_all_processes and
\* force_cleanup_all_processes made so far
CallsStarted ==
    Cardinality({t \in Terms : termPc[t] # "idle"})
    + (IF caPc # "idle" THEN 1 ELSE 0) + (IF fcPc # "idle" THEN 1 ELSE 0)

\* ---------------------------------------------------- terminate_process
\* process.rs:436-437: lock the handle map and remove the entry; the lock stays
\* held to the end of the block when there was one
TermStart(t, id) ==
    /\ termPc[t] = "idle"
    /\ \A u \in Terms : u < t => termPc[u] # "idle"
    /\ CallsStarted < MaxCalls
    /\ id \in Returned \cup {UnknownId}
    /\ childLock = Free
    /\ termId' = [termId EXCEPT ![t] = id]
    /\ IF id \in child_processes
       THEN /\ child_processes' = RemoveHandle(child_processes, id)
            /\ handleRefs' = [handleRefs EXCEPT ![id] = (@ \ {"map"}) \cup {"local"}]
            /\ childLock' = Term(t)
            /\ termFound' = [termFound EXCEPT ![t] = TRUE]
            /\ termPc' = [termPc EXCEPT ![t] = "lockHandle"]
       ELSE /\ termPc' = [termPc EXCEPT ![t] = "meta"]
            /\ UNCHANGED <<child_processes, handleRefs, childLock, termFound>>
    /\ UNCHANGED <<running_processes, child, runLock, handleLock, procVars, launchVars,
                   pumpVars, termKilled, termResult, caVars, fcVars, pollVars, setupVars, unsent>>

\* process.rs:438-440: lock the handle, take the child, start child.kill();
\* without a child the block ends and both locks are released
TermLockHandle(t) ==
    /\ termPc[t] = "lockHandle"
    /\ handleLock[termId[t]] = Free
    /\ LET id == termId[t]
       IN /\ child' = [child EXCEPT ![id] = TakeChild(@)]
          /\ IF child[id] = "some"
             THEN /\ handleLock' = [handleLock EXCEPT ![id] = Term(t)]
                  /\ os' = KillOs(os, id)
                  /\ streams' = CloseAll(streams, id)
                  /\ termKilled' = [termKilled EXCEPT ![t] = TRUE]
                  /\ termPc' = [termPc EXCEPT ![t] = "kill"]
                  /\ UNCHANGED <<childLock, handleRefs>>
             ELSE /\ childLock' = Free
                  /\ handleRefs' = [handleRefs EXCEPT ![id] = @ \ {"local"}]
                  /\ termPc' = [termPc EXCEPT ![t] = "meta"]
                  /\ UNCHANGED <<handleLock, os, streams, termKilled>>
    /\ UNCHANGED <<running_processes, child_processes, runLock, launchVars, pumpVars,
                   termId, termFound, termResult, caVars, fcVars, pollVars, setupVars, unsent>>

\* process.rs:440-446: child.kill().await returns, the block ends, the handle
\* lock and the handle-map lock are released and the removed Arc goes
TermKillDone(t) ==
    /\ termPc[t] = "kill"
    /\ Dead(termId[t])
    /\ handleLock' = [handleLock EXCEPT ![termId[t]] = Free]
    /\ childLock' = Free
    /\ handleRefs' = [handleRefs EXCEPT ![termId[t]] = @ \ {"local"}]
    /\ termPc' = [termPc EXCEPT ![t] = "meta"]
    /\ UNCHANGED <<running_processes, child_processes, child, runLock, procVars,
                   launchVars, pumpVars, termId, termFound, termKilled, termResult, caVars,
                   fcVars, pollVars, setupVars, unsent>>

\* process.rs:448-457: the record is marked and removed, Ok(()) is returned
TermMeta(t) ==
    /\ termPc[t] = "meta"
    /\ runLock = Free
    /\ running_processes' = TerminateRecord(running_processes, termId[t])
    /\ termPc' = [termPc EXCEPT ![t] = "done"]
    /\ termResult' = [termResult EXCEPT ![t] = "Ok"]
    /\ UNCHANGED <<child_processes, handleVars, lockVars, procVars, launchVars, pumpVars,
                   termId, termFound, termKilled, caVars, fcVars, pollVars, setupVars, unsent>>

\* ------------------------------------------------------ get_process_logs
\* process.rs:460-488 (lib.rs:436-443 get_process_output passes the result on)
GetProcessLogs(id) ==
    /\ id \in Returned \cup {UnknownId}
    /\ runLock = Free
    /\ IF RecordFound(running_processes, id)
       THEN LET r == Logs(running_processes[id])
            IN /\ running_processes' = [running_processes EXCEPT ![id] = r.info]
               /\ pollResult' = [id |-> id, ok |-> TRUE, output |-> r.new_output,
                                 is_running |-> IsRunning(running_processes[id]),
                                 n |-> Len(unsent[id]), expected |-> unsent[id],
                                 advance |-> r.info.last_sent_line
                                             - running_processes[id].last_sent_line,
                                 again |-> polled[id],
                                 same_log |-> /\ r.info.output = running_processes[id].output
                                              /\ r.info.status = running_processes[id].status]
               /\ unsent' = [unsent EXCEPT ![id] = <<>>]
               /\ polled' = [polled EXCEPT ![id] = TRUE]
       ELSE /\ pollResult' = [NoPoll EXCEPT !.id = id]
            /\ UNCHANGED <<running_processes, unsent, polled>>
    /\ UNCHANGED <<child_processes, handleVars, lockVars, procVars, launchVars, pumpVars,
                   termVars, caVars, fcVars, setupVars>>

\* ------------------------------------------- AppState::cleanup_all_processes
\* lib.rs:70-80: count the entries under the lock; return when there are none
CaCount ==
    /\ caPc = "idle"
    /\ CallsStarted < MaxCalls
    /\ childLock = Free
    /\ caPc' = IF child_processes = {} THEN "done" ELSE "counted"
    /\ UNCHANGED <<running_processes, child_processes, handleVars, lockVars, procVars,
                   launchVars, pumpVars, termVars, caQueue, caDrained, fcVars, pollVars, setupVars,
                   unsent>>

\* lib.rs:82-85: both map locks are taken, drain() empties the handle map
CaLock ==
    /\ caPc = "counted"
    /\ childLock = Free
    /\ runLock = Free
    /\ childLock' = Cleanup
    /\ runLock' = Cleanup
    /\ caQueue' = child_processes
    /\ caDrained' = child_processes
    /\ child_processes' = {}
    /\ handleRefs' = [i \in ProcIds |-> IF i \in child_processes
                                        THEN (handleRefs[i] \ {"map"}) \cup {"local"}
                                        ELSE handleRefs[i]]
    /\ caPc' = "drain"
    /\ UNCHANGED <<running_processes, child, handleLock, procVars, launchVars, pumpVars,
                   termVars, fcVars, pollVars, setupVars, unsent>>

\* lib.rs:85-108: one entry of drain(): lock the handle, take the child,
\* child.kill().await, end of the iteration
CaIter(id) ==
    /\ caPc = "drain"
    /\ id \in caQueue
    /\ handleLock[id] = Free
    /\ child' = [child EXCEPT ![id] = TakeChild(@)]
    /\ os' = IF child[id] = "some" THEN KillOs(os, id) ELSE os
    /\ streams' = IF child[id] = "some" THEN CloseAll(streams, id) ELSE streams
    /\ handleRefs' = [handleRefs EXCEPT ![id] = @ \ {"local"}]
    /\ caQueue' = caQueue \ {id}
    /\ UNCHANGED <<running_processes, child_processes, lockVars, launchVars, pumpVars,
                   termVars, caPc, caDrained, fcVars, pollVars, setupVars, unsent>>

\* lib.rs:110-113: the metadata map is cleared, both locks are released
CaFinish ==
    /\ caPc = "drain"
    /\ caQueue = {}
    /\ running_processes' = EmptyMap
    /\ childLock' = Free
    /\ runLock' = Free
    /\ caPc' = "done"
    /\ UNCHANGED <<child_processes, handleVars, handleLock, procVars, launchVars, pumpVars,
                   termVars, caQueue, caDrained, fcVars, pollVars, setupVars, unsent>>

\* ------------------------------------- AppState::force_cleanup_all_processes
\* a force_cleanup_all_processes that takes its locks with lock(): it waits
\* for as long as the mutex is held
FcWaitsLikeLock(owner) == owner # Free

\* lib.rs:121, 158, 174 try_lock: returns at once, Err when the mutex is held;
\* whether the caller has to wait for `owner`
FcWaitsFor(owner) == FALSE

\* the step of force cleanup that wants the mutex owned by `owner` can run
FcMayRun(owner) == ~FcWaitsFor(owner)

\* lib.rs:121-128, 170-172: try_lock on the handle map
FcStart ==
    /\ fcPc = "idle"
    /\ CallsStarted < MaxCalls
    /\ FcMayRun(childLock)
    /\ fcSteps' = fcSteps + 1
    /\ IF childLock = Free
       THEN IF child_processes = {}
            THEN /\ fcPc' = "done"
                 /\ UNCHANGED <<childLock, fcQueue, fcFailed>>
            ELSE /\ childLock' = Force
                 /\ fcQueue' = child_processes
                 /\ fcPc' = "iter"
                 /\ UNCHANGED fcFailed
       ELSE /\ fcFailed' = TRUE
            /\ fcPc' = "meta"
            /\ UNCHANGED <<childLock, fcQueue>>
    /\ UNCHANGED <<running_processes, child_processes, handleVars, runLock, handleLock,
                   procVars, launchVars, pumpVars, termVars, caVars, pollVars, setupVars, unsent>>

\* lib.rs:157-165 (the branch for not(windows); lib.rs:135-150 does the same
\* with taskkill): one entry of iter(): try_lock on the handle, get_child_id,
\* kill -9
FcIter(id) ==
    /\ fcPc = "iter"
    /\ id \in fcQueue
    /\ FcMayRun(handleLock[id])
    /\ fcSteps' = fcSteps + 1
    /\ LET kill == handleLock[id] = Free /\ child[id] = "some"
       IN /\ os' = IF kill THEN KillOs(os, id) ELSE os
          /\ streams' = IF kill THEN CloseAll(streams, id) ELSE streams
    /\ fcQueue' = fcQueue \ {id}
    /\ UNCHANGED <<running_processes, child_processes, handleVars, lockVars, launchVars,
                   pumpVars, termVars, caVars, fcPc, fcFailed, pollVars, setupVars, unsent>>

\* lib.rs:168-169: clear() drops the map's Arc of every handle
FcClear ==
    /\ fcPc = "iter"
    /\ fcQueue = {}
    /\ fcSteps' = fcSteps + 1
    /\ LET dropped == {i \in child_processes : DropsChild(i, {"map"})}
       IN /\ os' = [i \in ProcIds |-> IF i \in dropped THEN KillOs(os, i)[i] ELSE os[i]]
          /\ streams' = [i \in ProcIds |-> IF i \in dropped THEN {} ELSE streams[i]]
    /\ handleRefs' = [i \in ProcIds |-> IF i \in child_processes
                                        THEN handleRefs[i] \ {"map"} ELSE handleRefs[i]]
    /\ child_processes' = {}
    /\ childLock' = Free
    /\ fcPc' = "meta"
    /\ UNCHANGED <<running_processes, child, runLock, handleLock, launchVars, pumpVars,
                   termVars, caVars, fcQueue, fcFailed, pollVars, setupVars, unsent>>

\* lib.rs:174-178: try_lock on the metadata map, clear it when the lock was free
FcMeta ==
    /\ fcPc = "meta"
    /\ FcMayRun(runLock)
    /\ fcSteps' = fcSteps + 1
    /\ running_processes' = IF runLock = Free THEN EmptyMap ELSE running_processes
    /\ fcPc' = "done"
    /\ UNCHANGED <<child_processes, handleVars, lockVars, procVars, launchVars, pumpVars,
                   termVars, caVars, fcQueue, fcFailed, pollVars, setupVars, unsent>>

\* ------------------------------------------------------------------ Next
Next ==
    \/ LaunchSpawn
    \/ \E id \in ProcIds : LaunchInsertHandle(id)
    \/ \E id \in ProcIds : ProcExit(id)
    \/ \E id \in ProcIds, s \in {"out", "err"} : ProcCloseStream(id, s)
    \/ \E id \in ProcIds : PumpStart(id)
    \/ \E id \in ProcIds, tag \in {"OUT", "INFO"} : PumpLine(id, tag)
    \/ \E id \in ProcIds, s \in {"out", "err"} : PumpEof(id, s)
    \/ \E id \in ProcIds : PumpReadError(id)
    \/ \E id \in ProcIds : PumpLock(id)
    \/ \E id \in ProcIds : PumpWait(id)
    \/ \E id \in ProcIds : PumpMark(id)
    \/ \E id \in ProcIds : PumpRemove(id)
    \/ \E t \in Terms, id \in ProcIds \cup {UnknownId} : TermStart(t, id)
    \/ \E t \in Terms : TermLockHandle(t)
    \/ \E t \in Terms : TermKillDone(t)
    \/ \E t \in Terms : TermMeta(t)
    \/ CaCount
    \/ CaLock
    \/ \E id \in ProcIds : CaIter(id)
    \/ CaFinish
    \/ FcStart
    \/ \E id \in ProcIds : FcIter(id)
    \/ FcClear
    \/ FcMeta

Spec == Init /\ [][Next]_vars

\* ------------------------------------------------------- fair scheduling
\* the steps of the pump of id that wait for nothing but a lock, the end of a
\* stream or the end of the process (reading a line is up to the process)
PumpTask(id) ==
    \/ PumpStart(id)
    \/ \E s \in {"out", "err"} : PumpEof(id, s)
    \/ PumpLock(id)
    \/ PumpWait(id)
    \/ PumpMark(id)
    \/ PumpRemove(id)

\* the steps of a terminate_process call once it has started
TermTask(t) == TermLockHandle(t) \/ TermKillDone(t) \/ TermMeta(t)

\* the steps of cleanup_all_processes once it has started
CaTask == CaLock \/ (\E id \in ProcIds : CaIter(id)) \/ CaFinish

\* the steps of force_cleanup_all_processes once it has started
FcTask == (\E id \in ProcIds : FcIter(id)) \/ FcClear \/ FcMeta

\* the tokio runtime polls every task that can make progress; whether the
\* process writes, closes a stream or exits, and whether a client calls, is
\* left open
Fairness ==
    /\ \A id \in ProcIds : WF_vars(LaunchInsertHandle(id)) /\ WF_vars(PumpTask(id))
    /\ \A t \in Terms : WF_vars(TermTask(t))
    /\ WF_vars(CaTask)
    /\ WF_vars(FcTask)

FairSpec == Spec /\ Fairness

\* ------------------------------------------------- one record near the cap
\* the first n lines a process wrote, all on stdout
Lines(from, to) == [i \in 1..(to - from + 1) |-> FormatLine("OUT", from + i - 1)]

\* A state launch_model_server and the pump reach: process 1 is running, its
\* pump is in the read loop and has appended n0 lines so far, and the last
\* get_process_logs(1) was made when p lines had arrived (p = 0: none yet).
LogInitWith(n0, p) ==
    /\ running_processes =
           (1 :> [status |-> "Running",
                  output |-> LastN(Lines(1, n0), MaxOutputLines),
                  last_sent_line |-> IF p < MaxOutputLines THEN p ELSE MaxOutputLines])
    /\ child_processes = {1}
    /\ child = [i \in ProcIds |-> IF i = 1 THEN "some" ELSE "none"]
    /\ handleRefs = [i \in ProcIds |-> IF i = 1 THEN {"map", "pump"} ELSE {}]
    /\ childLock = Free
    /\ runLock = Free
    /\ handleLock = [i \in ProcIds |-> Free]
    /\ os = [i \in ProcIds |-> IF i = 1 THEN "alive" ELSE "none"]
    /\ streams = [i \in ProcIds |-> IF i = 1 THEN {"out", "err"} ELSE {}]
    /\ nextId = 2
    /\ launchPc = [i \in ProcIds |-> IF i = 1 THEN "done" ELSE "none"]
    /\ pumpPc = [i \in ProcIds |-> IF i = 1 THEN "loop" ELSE "none"]
    /\ pumpCode = [i \in ProcIds |-> 0]
    /\ emitted = [i \in ProcIds |-> IF i = 1 THEN n0 ELSE 0]
    /\ base = [i \in ProcIds |-> IF i = 1 THEN n0 ELSE 0]
    /\ termPc = [t \in Terms |-> "idle"]
    /\ termId = [t \in Terms |-> UnknownId]
    /\ termFound = [t \in Terms |-> FALSE]
    /\ termKilled = [t \in Terms |-> FALSE]
    /\ termResult = [t \in Terms |-> "none"]
    /\ caPc = "idle"
    /\ caQueue = {}
    /\ caDrained = {}
    /\ fcPc = "idle"
    /\ fcQueue = {}
    /\ fcSteps = 0
    /\ fcFailed = FALSE
    /\ pollResult = NoPoll
    /\ unsent = [i \in ProcIds |-> IF i = 1 THEN Lines(p + 1, n0) ELSE <<>>]
    /\ polled = [i \in ProcIds |-> i = 1 /\ p > 0]
    /\ config = DefaultConfig
    /\ saved = <<>>
    /\ env = DefaultEnv
    /\ launch = NoLaunch
    /\ calls = NoCalls
    /\ external = NoExternal
    /\ settings = NoSettings

LogInit ==
    \E n0 \in {0} \cup ((MaxOutputLines - LogSlack)..MaxOutputLines) :
        \E p \in {0} \cup {q \in (n0 - 1)..n0 : q >= 0} :
            LogInitWith(n0, p)

\* the pump, the process, get_process_logs and terminate_process on that record
LogNext ==
    \/ ProcExit(1)
    \/ \E s \in {"out", "err"} : ProcCloseStream(1, s)
    \/ \E tag \in {"OUT", "INFO"} : PumpLine(1, tag)
    \/ \E s \in {"out", "err"} : PumpEof(1, s)
    \/ PumpReadError(1)
    \/ PumpLock(1)
    \/ PumpWait(1)
    \/ PumpMark(1)
    \/ PumpRemove(1)
    \/ \E id \in {1, UnknownId} : GetProcessLogs(id)
    \/ TermStart(1, 1)
    \/ TermLockHandle(1)
    \/ TermKillDone(1)
    \/ TermMeta(1)

LogSpec == LogInit /\ [][LogNext]_vars

\* ------------------------------------------- a process that writes text
\* the pump and the process on that record when every line the process writes
\* is valid UTF-8: no read returns an error
EofNext ==
    \/ ProcExit(1)
    \/ \E s \in {"out", "err"} : ProcCloseStream(1, s)
    \/ \E tag \in {"OUT", "INFO"} : PumpLine(1, tag)
    \/ \E s \in {"out", "err"} : PumpEof(1, s)
    \/ PumpLock(1)
    \/ PumpWait(1)
    \/ PumpMark(1)
    \/ PumpRemove(1)

EofSpec == LogInit /\ [][EofNext]_vars

\* ------------------------------------------- a fresh record filling up
\* lines the pump appends to one record in one behaviour
MaxAppended == 1500
\* lines the pump reads from one stream in a row
BurstSizes == {250, 500}

\* process.rs:355-384: k turns of the read loop in a row that each read a line
\* of the same stream (tag "OUT": 357-362, tag "INFO": 370-375)
PumpBurst(id, tag, k) ==
    /\ pumpPc[id] = "loop"
    /\ emitted[id] + k <= MaxAppended
    /\ runLock = Free
    /\ LET lines == [i \in 1..k |-> FormatLine(tag, emitted[id] + i)]
       IN /\ running_processes' = AddOutputLines(running_processes, id, lines)
          /\ unsent' = IF id \in DOMAIN running_processes
                       THEN [unsent EXCEPT ![id] = @ \o lines]
                       ELSE unsent
    /\ emitted' = [emitted EXCEPT ![id] = @ + k]
    /\ UNCHANGED <<child_processes, handleVars, lockVars, procVars, launchVars, pumpPc,
                   pumpCode, base, termVars, caVars, fcVars, pollVars, setupVars>>

\* process 1 has just been launched and its pump has entered the read loop
AppendInit == LogInitWith(0, 0)

\* the pump reads lines of the two streams in any order
AppendNext ==
    \/ \E tag \in {"OUT", "INFO"} : PumpLine(1, tag)
    \/ \E tag \in {"OUT", "INFO"}, k \in BurstSizes : PumpBurst(1, tag, k)

AppendSpec == AppendInit /\ [][AppendNext]_vars

\* ------------------------------------------- one launch, step by step
\* what launch_model_server leaves alone before it registers the process
LaunchFrame ==
    <<child_processes, handleVars, lockVars, pumpVars, termVars, caVars, fcVars,
      pollVars, unsent, calls, external, settings>>

\* process.rs:192-203 with the port and command fields: the record of a
\* server on `port` started from `executable_path`
ProcessInfoOn(port, executable_path) ==
    [status |-> NewProcessInfo.status, output |-> NewProcessInfo.output,
     last_sent_line |-> NewProcessInfo.last_sent_line, port |-> port,
     command |-> <<PathText(executable_path)>>]

\* process.rs:133-147: the configuration is read, the executable resolved (the
\* fallback makes its candidate active and asks save_settings to persist it,
\* which may fail), and the launch fails when the path does not exist
LaunchResolve ==
    /\ launch.pc = "idle"
    /\ LET r == resolve_llama_server_path_with_fallback(config, env)
           cfg == IF r.chosen # None THEN Activate(config, r.chosen[1]) ELSE config
       IN /\ config' = cfg
          /\ \E save_ok \in BOOLEAN :
                saved' = IF r.chosen # None /\ save_ok THEN Append(saved, cfg) ELSE saved
          /\ launch' = IF Exists(env, r.path)
                       THEN [launch EXCEPT !.pc = "resolved", !.executable_path = r.path,
                                           !.scanned = r.scanned]
                       ELSE [launch EXCEPT !.pc = "returned", !.executable_path = r.path,
                                           !.scanned = r.scanned, !.result = "NotFound"]
    /\ UNCHANGED <<running_processes, procVars, launchVars, env, LaunchFrame>>

\* process.rs:149-177: requested_port, actual_port, final_port, and the custom
\* arguments of the command
LaunchPort ==
    /\ launch.pc = "resolved"
    /\ LET requested_port == parse_port_from_args(env.custom_args, env.server_port)
           actual_port == find_available_port(env, requested_port)
           final_port == IF actual_port # requested_port THEN actual_port ELSE requested_port
       IN launch' = IF actual_port = Panic
                    THEN [launch EXCEPT !.pc = "returned", !.requested_port = requested_port,
                                        !.result = "Panic"]
                    ELSE [launch EXCEPT !.pc = "port", !.requested_port = requested_port,
                                        !.final_port = final_port,
                                        !.custom_args = CustomArgs(env.custom_args),
                                        !.args = CommandArgs(final_port, env.custom_args)]
    /\ UNCHANGED <<running_processes, procVars, launchVars, config, saved, env, LaunchFrame>>

\* a Child dropped without kill_on_drop: the process keeps running
KeepOnDrop(o, id) == o

\* process.rs:167 kill_on_drop(true): dropping the Child kills the process
KillOnDrop(o, id) == KillOs(o, id)

\* process.rs:179: cmd.spawn()? fails, the error is returned
LaunchSpawnFails ==
    /\ launch.pc = "port"
    /\ launch' = [launch EXCEPT !.pc = "returned", !.result = "SpawnFailed"]
    /\ UNCHANGED <<running_processes, procVars, launchVars, config, saved, env, LaunchFrame>>

\* process.rs:179-184: the process is spawned, an identifier is generated, and
\* stdout or stderr is None: the error is returned and the Child local is
\* dropped with kill_on_drop(true) (process.rs:167), which kills the process
LaunchCaptureFails ==
    /\ launch.pc = "port"
    /\ nextId <= MaxProcs
    /\ os' = KillOnDrop([os EXCEPT ![nextId] = "alive"], nextId)
    /\ nextId' = nextId + 1
    /\ launch' = [launch EXCEPT !.pc = "returned", !.result = "CaptureFailed"]
    /\ UNCHANGED <<running_processes, streams, launchPc, config, saved, env, LaunchFrame>>

\* process.rs:179-209: the process is spawned on final_port and its record
\* inserted into the metadata map
LaunchRegister ==
    /\ launch.pc = "port"
    /\ nextId <= MaxProcs
    /\ runLock = Free
    /\ os' = [os EXCEPT ![nextId] = "alive"]
    /\ streams' = [streams EXCEPT ![nextId] = {"out", "err"}]
    /\ running_processes' = MapInsert(running_processes, nextId,
                                     ProcessInfoOn(launch.final_port, launch.executable_path))
    /\ launchPc' = [launchPc EXCEPT ![nextId] = "registered"]
    /\ nextId' = nextId + 1
    /\ launch' = [launch EXCEPT !.pc = "registered", !.result = "Ok"]
    /\ UNCHANGED <<config, saved, env, LaunchFrame>>

\* creation times a directory may carry
MaxTime == 2
\* pieces in custom_args
MaxArgLen == 4

\* the sequences without repetition over the set S: the orders read_dir may
\* yield the subdirectories in
RECURSIVE Orders(_)
Orders(S) ==
    IF S = {} THEN {<<>>}
    ELSE UNION {{Append(o, x) : o \in Orders(S \ {x})} : x \in S}

\* every configuration and disk: any subset of the versions installed in any
\* order, with or without the executable, with or without a creation time
ResolveVary ==
    /\ config \in [active_executable_folder : {None, Some(OtherFolder)},
                   active_executable_version : {None, Some("v1"), Some(MissingVersion)}]
    /\ \E installed \in SUBSET Versions :
         \E subdirs \in Orders(installed), with_exe \in SUBSET installed,
            plain \in SUBSET {Join(ExecutableFolder, ExeName), Join(OtherFolder, ExeName)},
            created \in [Versions -> {None} \cup {Some(t) : t \in 1..MaxTime}] :
            /\ \A v \in Versions \ installed : created[v] = None
            /\ env = [DefaultEnv EXCEPT
                         !.files = plain \cup {Join(VersionDir(v), ExeName) : v \in with_exe},
                         !.subdirs = subdirs,
                         !.created = created]

\* the strings of at most n pieces
RECURSIVE Strings(_)
Strings(n) ==
    IF n = 0 THEN {<<>>}
    ELSE LET shorter == Strings(n - 1)
         IN shorter \cup {Append(str, piece) : str \in shorter, piece \in ArgPieces}

\* every custom_args, with the port it may name free or in use
ArgsVary ==
    /\ config = DefaultConfig
    /\ \E custom_args \in Strings(MaxArgLen), occupied \in SUBSET {9001} :
         env = [DefaultEnv EXCEPT !.custom_args = custom_args, !.occupied = occupied]

\* characters in a custom_args made of words, spaces and quotes
MaxQuotedLen == 5
\* a word character, the space and the two quotes
QuotePieces == {"a", Space, DoubleQuote, SingleQuote}

\* the strings of at most n characters of QuotePieces
RECURSIVE QuotedStrings(_)
QuotedStrings(n) ==
    IF n = 0 THEN {<<>>}
    ELSE LET shorter == QuotedStrings(n - 1)
         IN shorter \cup {Append(str, piece) : str \in shorter, piece \in QuotePieces}

\* the custom_args `--foo "a b" --bar`
QuotedExample ==
    <<"--foo", Space, DoubleQuote, "a", Space, "b", DoubleQuote, Space, "--bar">>

\* every custom_args of words, spaces and quotes
QuotesVary ==
    /\ config = DefaultConfig
    /\ \E custom_args \in QuotedStrings(MaxQuotedLen) \cup {QuotedExample} :
         env = [DefaultEnv EXCEPT !.custom_args = custom_args]

\* the ports start_port .. start_port + ProbeLimit + 1 in u16 arithmetic
Window(start_port) == [k \in 0..(ProbeLimit + 1) |-> (start_port + k) % (U16Max + 1)]

\* every run of occupied ports from the configured port on, followed by a free
\* port and any of the two ports after it, in both kinds of build
PortsVary ==
    /\ config = DefaultConfig
    /\ \E start_port \in {8080, U16Max - ProbeLimit, U16Max - 5, U16Max},
          run \in 0..(ProbeLimit + 2), later \in SUBSET {1, 2}, checks \in BOOLEAN :
         env = [DefaultEnv EXCEPT
                   !.server_port = start_port,
                   !.occupied = {Window(start_port)[k] : k \in 0..(run - 1)}
                                \cup {Window(start_port)[run + k] :
                                        k \in {j \in later : run + j <= ProbeLimit + 1}},
                   !.overflow_checks = checks]

LaunchInit ==
    /\ NothingLaunched
    /\ ResolveVary \/ ArgsVary \/ PortsVary \/ QuotesVary

LaunchNext ==
    \/ LaunchResolve
    \/ LaunchPort
    \/ LaunchSpawnFails
    \/ LaunchCaptureFails
    \/ LaunchRegister
    \/ \E id \in ProcIds : LaunchInsertHandle(id)

LaunchSpec == LaunchInit /\ [][LaunchNext]_vars

\* ------------------------------------------- two launches, one port
\* what the concurrent launches leave alone before they register a process
CallFrame ==
    <<child_processes, handleVars, lockVars, pumpVars, termVars, caVars, fcVars,
      pollVars, unsent, config, saved, launch, external, settings>>

\* process.rs:133-158 on a machine where the executable is installed: the
\* call reads the configuration and probes for its port; the probe's listener
\* is dropped before is_port_available returns (process.rs:520-527)
CallPort(c) ==
    /\ calls[c].pc = "idle"
    /\ LET requested_port == parse_port_from_args(env.custom_args, env.server_port)
           actual_port == find_available_port(env, requested_port)
           final_port == IF actual_port # requested_port THEN actual_port ELSE requested_port
       IN calls' = IF actual_port = Panic
                   THEN [calls EXCEPT ![c].pc = "returned"]
                   ELSE [calls EXCEPT ![c].pc = "port", ![c].final_port = final_port]
    /\ UNCHANGED <<running_processes, procVars, launchVars, env, CallFrame>>

\* process.rs:160-209: the server is spawned with --port final_port and its
\* record inserted into the metadata map
CallRegister(c) ==
    /\ calls[c].pc = "port"
    /\ nextId <= MaxProcs
    /\ runLock = Free
    /\ os' = [os EXCEPT ![nextId] = "alive"]
    /\ streams' = [streams EXCEPT ![nextId] = {"out", "err"}]
    /\ running_processes' =
           MapInsert(running_processes, nextId,
                     ProcessInfoOn(calls[c].final_port,
                                   resolve_llama_server_path_with_fallback(config, env).path))
    /\ launchPc' = [launchPc EXCEPT ![nextId] = "registered"]
    /\ calls' = [calls EXCEPT ![c].pc = "registered", ![c].id = nextId,
                              ![c].server = "starting"]
    /\ nextId' = nextId + 1
    /\ UNCHANGED <<env, CallFrame>>

\* the spawned llama-server binds the port of its --port argument
\* (process.rs:163-164), or fails to and exits when the port is in use
ServerBinds(c) ==
    /\ calls[c].server = "starting"
    /\ os[calls[c].id] = "alive"
    /\ IF is_port_available(env, calls[c].final_port)
       THEN /\ env' = [env EXCEPT !.occupied = @ \cup {calls[c].final_port}]
            /\ calls' = [calls EXCEPT ![c].server = "listening"]
            /\ UNCHANGED procVars
       ELSE /\ os' = [os EXCEPT ![calls[c].id] = "exited"]
            /\ streams' = CloseAll(streams, calls[c].id)
            /\ calls' = [calls EXCEPT ![c].server = "failed"]
            /\ UNCHANGED env
    /\ UNCHANGED <<running_processes, launchVars, CallFrame>>

\* process.rs:227-234: the call has returned Ok with its server_port
CallReturned(c) == calls[c].pc = "registered" /\ launchPc[calls[c].id] = "done"

\* two models configured with the same port, with that port and the next one
\* free or in use
PortInit ==
    /\ NothingLaunched
    /\ config = DefaultConfig
    /\ \E occupied \in SUBSET {DefaultEnv.server_port, DefaultEnv.server_port + 1} :
         env = [DefaultEnv EXCEPT !.occupied = occupied]

PortNext ==
    \/ \E c \in ProcIds : CallPort(c)
    \/ \E c \in ProcIds : CallRegister(c)
    \/ \E id \in ProcIds : LaunchInsertHandle(id)
    \/ \E c \in ProcIds : ServerBinds(c)

PortSpec == PortInit /\ [][PortNext]_vars

\* ------------------------------------- one launch and what follows it
\* one launch_model_server call step by step, then the process, its pump and
\* the terminate_process calls on it
StatusInit ==
    /\ NothingLaunched
    /\ config = DefaultConfig
    /\ env = DefaultEnv

StatusNext ==
    \/ LaunchNext
    \/ ProcExit(1)
    \/ \E s \in {"out", "err"} : ProcCloseStream(1, s)
    \/ PumpStart(1)
    \/ \E tag \in {"OUT", "INFO"} : PumpLine(1, tag)
    \/ \E s \in {"out", "err"} : PumpEof(1, s)
    \/ PumpReadError(1)
    \/ PumpLock(1)
    \/ PumpWait(1)
    \/ PumpMark(1)
    \/ PumpRemove(1)
    \/ \E t \in Terms, id \in {1, UnknownId} : TermStart(t, id)
    \/ \E t \in Terms : TermLockHandle(t)
    \/ \E t \in Terms : TermKillDone(t)
    \/ \E t \in Terms : TermMeta(t)

StatusSpec == StatusInit /\ [][StatusNext]_vars

\* ------------------------------------------------ launch_model_external
\* servers launch_model_external starts per behaviour
MaxExternal == 1

\* a launch_model_external that registers its server as launch_model_server does
ExternalRegistered(procs) == MapInsert(procs, ExternalId, NewProcessInfo)

\* process.rs:237-332: the metadata map after launch_model_external, which
\* never locks it
ExternalRecords(procs) == procs

\* process.rs:237-332: configuration read, executable resolved, port chosen,
\* and the command handed to a terminal emulator (x-terminal-emulator, then
\* gnome-terminal, then xterm; the last spawn()? returns the error); the Child
\* is dropped without kill_on_drop, so the terminal and the server keep
\* running; no pump is spawned and no lock of either map is taken
LaunchExternal ==
    /\ external.servers < MaxExternal
    /\ LET r == resolve_llama_server_path_with_fallback(config, env)
           cfg == IF r.chosen # None THEN Activate(config, r.chosen[1]) ELSE config
           requested_port == parse_port_from_args(env.custom_args, env.server_port)
           actual_port == find_available_port(env, requested_port)
           final_port == IF actual_port # requested_port THEN actual_port ELSE requested_port
       IN /\ config' = cfg
          /\ \E save_ok \in BOOLEAN :
                saved' = IF r.chosen # None /\ save_ok THEN Append(saved, cfg) ELSE saved
          /\ IF ~Exists(env, r.path)
             THEN external' = [external EXCEPT !.result = "NotFound"]
             ELSE IF actual_port = Panic
             THEN external' = [external EXCEPT !.result = "Panic"]
             ELSE \E spawned \in BOOLEAN :
                    external' = IF spawned
                                THEN [servers |-> external.servers + 1, result |-> "Ok",
                                      process_id |-> ExternalId, server_port |-> final_port]
                                ELSE [external EXCEPT !.result = "SpawnFailed"]
    /\ running_processes' = ExternalRecords(running_processes)
    /\ UNCHANGED <<child_processes, handleVars, lockVars, procVars, launchVars, pumpVars,
                   termVars, caVars, fcVars, pollVars, unsent, env, launch, calls, settings>>

\* one launch_model_server call and launch_model_external next to the
\* process, its pump, and the calls that reach registered processes
ExternalNext ==
    \/ StatusNext
    \/ LaunchExternal
    \/ \E id \in {1, UnknownId} : GetProcessLogs(id)
    \/ CaCount
    \/ CaLock
    \/ CaIter(1)
    \/ CaFinish
    \/ FcStart
    \/ FcIter(1)
    \/ FcClear
    \/ FcMeta

ExternalSpec == StatusInit /\ [][ExternalNext]_vars

\* ------------------------------------------- the configuration mutexes
\* what a step on the configuration mutexes leaves alone
SettingsFrame ==
    <<running_processes, child_processes, handleVars, lockVars, procVars, launchVars,
      pumpVars, termVars, caVars, fcVars, pollVars, unsent, config, env, launch, calls,
      external>>

\* process.rs:134: launch_model_server locks config
ReadLockConfig ==
    /\ settings.readPc = "idle"
    /\ settings.configLock = Free
    /\ settings' = [settings EXCEPT !.configLock = LaunchTask, !.readPc = "config"]
    /\ UNCHANGED <<saved, SettingsFrame>>

\* process.rs:135: holding config, it locks model_configs
ReadLockModels ==
    /\ settings.readPc = "config"
    /\ settings.modelLock = Free
    /\ settings' = [settings EXCEPT !.modelLock = LaunchTask, !.readPc = "both"]
    /\ UNCHANGED <<saved, SettingsFrame>>

\* process.rs:136-140: both configurations are cloned, both guards dropped
ReadRelease ==
    /\ settings.readPc = "both"
    /\ settings' = [settings EXCEPT !.configLock = Free, !.modelLock = Free,
                                    !.readPc = "done"]
    /\ UNCHANGED <<saved, SettingsFrame>>

\* config.rs:58-61 save_settings: config is locked, cloned and unlocked
SaveCloneConfig ==
    /\ settings.savePc = "idle"
    /\ settings.configLock = Free
    /\ settings' = [settings EXCEPT !.savePc = "models", !.global_config = Some(config)]
    /\ UNCHANGED <<saved, SettingsFrame>>

\* config.rs:63-77: model_configs is locked, cloned and unlocked, and the
\* settings file is written
SaveCloneModels ==
    /\ settings.savePc = "models"
    /\ settings.modelLock = Free
    /\ settings' = [settings EXCEPT !.savePc = "done"]
    /\ saved' = Append(saved, settings.global_config[1])
    /\ UNCHANGED SettingsFrame

\* one launch_model_server call from its first lock on, a save_settings call,
\* the process, its pump, and every call on registered processes
LockNext ==
    \/ ReadLockConfig
    \/ ReadLockModels
    \/ ReadRelease
    \/ SaveCloneConfig
    \/ SaveCloneModels
    \/ (settings.readPc = "done" /\ LaunchResolve)
    \/ LaunchPort
    \/ LaunchSpawnFails
    \/ LaunchCaptureFails
    \/ LaunchRegister
    \/ \E id \in ProcIds : LaunchInsertHandle(id)
    \/ ProcExit(1)
    \/ \E s \in {"out", "err"} : ProcCloseStream(1, s)
    \/ PumpStart(1)
    \/ \E tag \in {"OUT", "INFO"} : PumpLine(1, tag)
    \/ \E s \in {"out", "err"} : PumpEof(1, s)
    \/ PumpReadError(1)
    \/ PumpLock(1)
    \/ PumpWait(1)
    \/ PumpMark(1)
    \/ PumpRemove(1)
    \/ \E t \in Terms, id \in {1, UnknownId} : TermStart(t, id)
    \/ \E t \in Terms : TermLockHandle(t)
    \/ \E t \in Terms : TermKillDone(t)
    \/ \E t \in Terms : TermMeta(t)
    \/ \E id \in {1, UnknownId} : GetProcessLogs(id)
    \/ CaCount
    \/ CaLock
    \/ CaIter(1)
    \/ CaFinish
    \/ FcStart
    \/ FcIter(1)
    \/ FcClear
    \/ FcMeta

LockSpec == StatusInit /\ [][LockNext]_vars

\* --------------------------------------- two processes that are polled
\* two launches, both processes and their pumps, one terminate_process call
\* and get_process_logs calls, on either identifier or on an unknown one
PollNext ==
    \/ LaunchSpawn
    \/ \E id \in ProcIds : LaunchInsertHandle(id)
    \/ \E id \in ProcIds : ProcExit(id)
    \/ \E id \in ProcIds, s \in {"out", "err"} : ProcCloseStream(id, s)
    \/ \E id \in ProcIds : PumpStart(id)
    \/ \E id \in ProcIds, tag \in {"OUT", "INFO"} : PumpLine(id, tag)
    \/ \E id \in ProcIds, s \in {"out", "err"} : PumpEof(id, s)
    \/ \E id \in ProcIds : PumpReadError(id)
    \/ \E id \in ProcIds : PumpLock(id)
    \/ \E id \in ProcIds : PumpWait(id)
    \/ \E id \in ProcIds : PumpMark(id)
    \/ \E id \in ProcIds : PumpRemove(id)
    \/ \E id \in ProcIds \cup {UnknownId} : TermStart(1, id)
    \/ TermLockHandle(1)
    \/ TermKillDone(1)
    \/ TermMeta(1)
    \/ \E id \in ProcIds \cup {UnknownId} : GetProcessLogs(id)

PollSpec == Init /\ [][PollNext]_vars

\* ===================================================================
\* Properties
\* ===================================================================
Records == DOMAIN running_processes

\* C1: in every reachable state every identifier in the handle map
\* (child_processes) is also in the metadata map (running_processes).
C1_HandleMapWithinMetadataMap == child_processes \subseteq Records

\* C2: in every reachable state the output log of every record holds at most
\* 1000 lines, the synthetic exit line included.
C2_LogWithinRetentionBound ==
    \A id \in Records : Len(running_processes[id].output) <= MaxOutputLines

\* C3: a get_output call made after N new lines were pushed since the previous
\* call returns exactly those N lines in order and moves the cursor by N, at
\* every log length up to and at the retention cap (N itself no larger than
\* the cap, so that the log can still hold all N lines).
C3_PollReturnsNewLines ==
    (pollResult.ok /\ pollResult.n <= MaxOutputLines) =>
        /\ pollResult.output = pollResult.expected
        /\ pollResult.advance = pollResult.n

\* C4: a get_output call that follows another one with no line pushed in
\* between returns no lines and leaves the log, the status and the cursor as
\* they were.
C4_SecondPollEmpty ==
    (pollResult.ok /\ pollResult.again /\ pollResult.n = 0) =>
        /\ pollResult.output = <<>>
        /\ pollResult.advance = 0
        /\ pollResult.same_log

\* the case of C4 has happened on a record that holds lines
C4_Witness ==
    /\ pollResult.ok /\ pollResult.again /\ pollResult.n = 0
    /\ pollResult.id \in Records
    /\ running_processes[pollResult.id].output # <<>>
    /\ emitted[pollResult.id] > base[pollResult.id]

Rank(status) ==
    CASE status = "Starting" -> 0
      [] status = "Running" -> 1
      [] OTHER -> 2

\* C5: in every step the status of every record stays or moves forward along
\* Starting -> Running -> Stopped/Failed, and a Stopped or Failed record keeps
\* its status.
C5_StatusMonotonic ==
    [][\A id \in Records \cap DOMAIN running_processes' :
          LET before == running_processes[id].status
              after == running_processes'[id].status
          IN /\ Rank(before) <= Rank(after)
             /\ before \in {"Stopped", "Failed"} => after = before]_vars

\* a record went all the way to Stopped while terminate_process calls ran
C5_Witness ==
    /\ \E id \in Records : running_processes[id].status = "Stopped"
    /\ \E t \in Terms : termPc[t] = "done" /\ termFound[t]

\* neither map holds id
Gone(id) == id \notin child_processes /\ id \notin Records

\* C6: of the terminate calls on one identifier at most one gets the handle
\* out of the map and at most one sends a kill, only a call that got the handle
\* kills, every call that returns returns Ok, and a step of a call that finds
\* the identifier in neither map changes neither map, no handle and no process.
C6_TerminateTwice ==
    /\ [](\A id \in ProcIds \cup {UnknownId} :
            /\ Cardinality({t \in Terms : termId[t] = id /\ termFound[t]}) <= 1
            /\ Cardinality({t \in Terms : termId[t] = id /\ termKilled[t]}) <= 1)
    /\ [](\A t \in Terms :
            /\ termKilled[t] => termFound[t]
            /\ termPc[t] = "done" => termResult[t] = "Ok")
    /\ [][\A t \in Terms :
            (termPc'[t] # termPc[t] /\ ~termFound'[t] /\ Gone(termId'[t]))
                => UNCHANGED <<running_processes, child_processes, child, os>>]_vars

\* two calls on the same issued identifier have returned; one of them killed
C6_Witness ==
    \E t, u \in Terms :
        /\ t # u /\ termId[t] = termId[u] /\ termId[t] \in ProcIds
        /\ termPc[t] = "done" /\ termPc[u] = "done"
        /\ termKilled[t] /\ ~termFound[u]

\* a terminate call killed id's process and has returned
KilledByTerminate(id) ==
    \E t \in Terms : termId[t] = id /\ termKilled[t] /\ termPc[t] = "done"

\* get_process_logs(id) returns Ok, not "Process not found"
GetOutputSucceeds(id) == RecordFound(running_processes, id)

\* C7 as stated: after terminate killed a running process, its record is still
\* there with status Stopped (until a cleanup removes it), its handle is gone,
\* and get_output keeps succeeding.
C7_RecordKeptAfterTerminate ==
    \A id \in ProcIds :
        (KilledByTerminate(id) /\ caPc = "idle" /\ fcPc = "idle") =>
            /\ id \notin child_processes
            /\ GetOutputSucceeds(id)
            /\ running_processes[id].status = "Stopped"

\* C7 amended: after terminate killed a running process and returned, the
\* identifier is in neither map, so get_output fails with "Process not found".
C7_RecordGoneAfterTerminate ==
    \A id \in ProcIds :
        KilledByTerminate(id) => id \notin child_processes /\ ~GetOutputSucceeds(id)

C7_Witness ==
    \E id \in ProcIds : KilledByTerminate(id) /\ pumpPc[id] = "done"

\* no launch_model_server call is between its two inserts, and no
\* terminate_process or force_cleanup_all_processes call is under way
NoOtherCallInFlight ==
    /\ \A id \in ProcIds : launchPc[id] # "registered"
    /\ \A t \in Terms : termPc[t] \in {"idle", "done"}
    /\ fcPc \in {"idle", "done"}

\* C8: when cleanup_all returns (no other call being in flight), the handle
\* map is empty, the metadata map is empty, and every process whose entry it
\* drained has ended.
C8_CleanupAllPost ==
    [][(caPc # "done" /\ caPc' = "done" /\ NoOtherCallInFlight) =>
          /\ child_processes' = {}
          /\ DOMAIN running_processes' = {}
          /\ \A id \in caDrained' : os'[id] \in {"exited", "killed"}]_vars

\* the step force_cleanup_all_processes is at
FcStep == FcStart \/ (\E id \in ProcIds : FcIter(id)) \/ FcClear \/ FcMeta

\* C9: force_cleanup_all never waits: once called its next step can be taken
\* whoever holds the locks, and it is done after at most one step per handle
\* entry and three more.
C9_ForceNeverWaits ==
    /\ fcPc \in {"iter", "meta"} => ENABLED FcStep
    /\ (fcPc = "idle" /\ CallsStarted < MaxCalls) => ENABLED FcStep
    /\ fcSteps <= MaxProcs + 3

\* force cleanup ran to its end while another task held the handle-map lock
C9_Witness == fcPc = "done" /\ fcFailed /\ childLock # Free

\* C10: a force_cleanup_all whose try_lock of the handle map failed modifies
\* neither the handle map nor the metadata map.
C10_ForceGivesUp ==
    [][(fcFailed /\ fcPc # "done") =>
          (UNCHANGED <<running_processes, child_processes>> \/ fcPc' = fcPc)]_vars

\* C11: when force_cleanup_all holds the handle-map lock of a non-empty map,
\* the process of every entry it visits is no longer alive once the entry has
\* been visited (the forced kill was issued, or the process had ended), also
\* when the entry's handle lock is held by the pump, and the step that ends
\* the iteration leaves the handle map empty.
C11_ForceKillsEveryEntry ==
    [][/\ \A id \in ProcIds :
             (fcPc = "iter" /\ id \in fcQueue /\ id \notin fcQueue') => os'[id] # "alive"
       /\ (fcPc = "iter" /\ fcPc' = "meta") => child_processes' = {}]_vars

\* C12: a step that takes an entry out of the handle map without going on to
\* kill it explicitly (the clear() of force_cleanup_all, the pump's remove)
\* leaves the process of that entry stopped, although the pump holds its own
\* reference to the handle.
C12_DropImpliesKill ==
    [][\A id \in ProcIds :
          (id \in child_processes /\ id \notin child_processes' /\ UNCHANGED <<termPc, caPc>>)
              => os'[id] # "alive"]_vars

\* C13: a launch issues an identifier that no process, record or handle ever
\* had, and at the step where the launch returns the identifier is in the
\* metadata map (status Starting or later, cursor 0) and in the handle map.
C13_LaunchRegisters ==
    [][\A id \in ProcIds :
          /\ (launchPc[id] = "none" /\ launchPc'[id] # "none") =>
                 os[id] = "none" /\ id \notin Records /\ id \notin child_processes
          /\ (launchPc[id] # "done" /\ launchPc'[id] = "done") =>
                 /\ id \in child_processes'
                 /\ id \in DOMAIN running_processes'
                 /\ Rank(running_processes'[id].status) >= Rank("Starting")
                 /\ running_processes'[id].last_sent_line = 0]_vars

\* a launch_model_server call returned an error from spawn() or from the
\* capture of stdout and stderr
LaunchFailedAtSpawn == launch.result \in {"SpawnFailed", "CaptureFailed"}

\* C14: after a launch that failed at spawn or at the capture of stdout and
\* stderr, neither map has an entry, no pump was started and no process is
\* running.
C14_FailedLaunchLeavesNothing ==
    LaunchFailedAtSpawn =>
        /\ Records = {}
        /\ child_processes = {}
        /\ \A id \in ProcIds : pumpPc[id] = "none" /\ os[id] # "alive"

\* the capture failed after the process had been spawned
C14_Witness == launch.result = "CaptureFailed" /\ \E id \in ProcIds : os[id] = "killed"

\* the step in which launch_model_server resolves the executable
ResolveStep == launch.pc = "idle" /\ launch'.pc # "idle"

\* the preferred path as the specification words it
ExpectedPreferred(cfg) ==
    IF cfg.active_executable_version # None
    THEN <<"exec", "versions", cfg.active_executable_version[1], "llama-server">>
    ELSE IF cfg.active_executable_folder # None
         THEN cfg.active_executable_folder[1] \o <<"llama-server">>
         ELSE <<"exec", "llama-server">>

\* the subdirectories of executable_folder/versions that contain the executable
WithExecutable(e) ==
    {v \in Versions : (\E i \in 1..Len(e.subdirs) : e.subdirs[i] = v)
                      /\ <<"exec", "versions", v, "llama-server">> \in e.files}

\* C15: when the preferred path does not exist and no subdirectory of
\* executable_folder/versions contains the executable, resolution returns the
\* preferred path, the configuration is neither changed nor saved, and the
\* launch returns the not-found error without spawning a process, issuing an
\* identifier or touching either map.
C15_NothingToResolve ==
    [][(ResolveStep /\ ExpectedPreferred(config) \notin env.files /\ WithExecutable(env) = {}) =>
          /\ launch'.executable_path = ExpectedPreferred(config)
          /\ launch'.pc = "returned" /\ launch'.result = "NotFound"
          /\ UNCHANGED <<config, saved, running_processes, child_processes, os, pumpPc,
                         nextId>>]_vars

\* the launch failed on a disk that has version directories, none with the executable
C15_Witness ==
    /\ launch.result = "NotFound"
    /\ env.subdirs # <<>>
    /\ config.active_executable_version # None

\* C16: the preferred path is executable_folder/versions/<version>/<exe> when a
\* version name is set (with or without an active folder), else
\* <active folder>/<exe>, else executable_folder/<exe>; when it exists the
\* resolution returns it without scanning the versions, changing the
\* configuration or saving the settings.
C16_PreferredPathWins ==
    [][(ResolveStep /\ ExpectedPreferred(config) \in env.files) =>
          /\ launch'.executable_path = ExpectedPreferred(config)
          /\ launch'.pc = "resolved"
          /\ ~launch'.scanned
          /\ UNCHANGED <<config, saved>>]_vars

\* resolved by version name with an active folder set too, whose own
\* executable exists, and with another installed version to fall back to
C16_Witness ==
    /\ launch.pc = "resolved"
    /\ config.active_executable_version = Some("v1")
    /\ config.active_executable_folder = Some(OtherFolder)
    /\ launch.executable_path = <<"exec", "versions", "v1", "llama-server">>
    /\ <<"opt", "llama-server">> \in env.files
    /\ "v2" \in WithExecutable(env)

\* candidate c is ranked no lower than candidate d: a later or equal creation
\* time, a readable time against none, or, both without a time, the name that
\* comes later
RanksFirst(e, c, d) ==
    IF e.created[c] # None
    THEN e.created[d] = None \/ e.created[d][1] <= e.created[c][1]
    ELSE e.created[d] = None /\ NameRank(d) <= NameRank(c)

\* C17: when the preferred path is missing and some subdirectory of
\* executable_folder/versions contains the executable, resolution returns the
\* executable of a candidate ranked first, makes that candidate the active
\* folder and the active version, and the launch goes on whether or not the
\* settings were saved.
C17_FallbackPicksLatest ==
    [][(ResolveStep /\ ExpectedPreferred(config) \notin env.files /\ WithExecutable(env) # {}) =>
          \E c \in WithExecutable(env) :
              /\ \A d \in WithExecutable(env) : RanksFirst(env, c, d)
              /\ launch'.executable_path = <<"exec", "versions", c, "llama-server">>
              /\ launch'.pc = "resolved"
              /\ config'.active_executable_folder = Some(<<"exec", "versions", c>>)
              /\ config'.active_executable_version = Some(c)
              /\ saved' \in {saved, Append(saved, config')}]_vars

\* the fallback chose among three candidates, two of them with creation
\* times, and the settings could not be saved
C17_Witness ==
    /\ launch.pc = "resolved" /\ launch.scanned
    /\ saved = <<>>
    /\ Cardinality(WithExecutable(env)) = 3
    /\ Cardinality({v \in Versions : env.created[v] # None}) = 2
    /\ config.active_executable_version # None
    /\ env.created[config.active_executable_version[1]] # None

\* the step in which launch_model_server chooses the port
PortStep == launch.pc = "resolved" /\ launch'.pc # "resolved"

\* C18: when the requested port P and the ten ports after it are all occupied,
\* find_available_port returns P and reports no error.
C18_AllOccupiedReturnsRequested ==
    [][(PortStep /\ \A k \in 0..10 : launch'.requested_port + k \in env.occupied) =>
          /\ launch'.pc = "port"
          /\ launch'.final_port = launch'.requested_port]_vars

\* the lowest port among P+1 .. P+10 that is a port and is free, for occupied P
LowestFree(e, P) ==
    LET free == {q \in (P + 1)..(P + 10) : q <= 65535 /\ q \notin e.occupied}
    IN CHOOSE q \in free : \A r \in free : q <= r

\* C19: a free requested port P is returned as it is; when P is occupied and
\* one of P+1 .. P+10 is free, the lowest free one is returned, which is at
\* most 10 beyond P.
C19_LowestFreePort ==
    [][PortStep =>
          LET P == launch'.requested_port
          IN /\ P \notin env.occupied =>
                    launch'.pc = "port" /\ launch'.final_port = P
             /\ (P \in env.occupied
                 /\ \E q \in (P + 1)..(P + 10) : q <= 65535 /\ q \notin env.occupied) =>
                    /\ launch'.pc = "port"
                    /\ launch'.final_port = LowestFree(env, P)
                    /\ launch'.final_port - P <= 10]_vars

\* the allocator went all the way to the tenth port after the requested one
C19_Witness ==
    /\ launch.pc = "port"
    /\ launch.final_port = launch.requested_port + 10
    /\ launch.requested_port \in env.occupied

\* the tokens of a string: its maximal runs of pieces other than the space
RECURSIVE Tokens(_)
Tokens(str) ==
    IF str = <<>> THEN <<>>
    ELSE IF str[1] = " " THEN Tokens(Tail(str))
    ELSE LET space_pos == Find(str, " ")
         IN IF space_pos = 0 THEN <<str>>
            ELSE <<SubSeq(str, 1, space_pos - 1)>> \o Tokens(From(str, space_pos + 1))

\* the values V of the tokens `--port=V` and of the token pairs `--port V`
\* with V parseable as an unsigned 16-bit integer
PortTokenValues(str) ==
    LET tokens == Tokens(str)
    IN {ParseU16(SubSeq(tokens[i], 3, Len(tokens[i])))[1] :
            i \in {j \in 1..Len(tokens) :
                     /\ Len(tokens[j]) >= 3
                     /\ tokens[j][1] = "--port" /\ tokens[j][2] = "="
                     /\ ParseU16(SubSeq(tokens[j], 3, Len(tokens[j]))) # None}}
       \cup
       {ParseU16(tokens[i + 1])[1] :
            i \in {j \in 1..(Len(tokens) - 1) :
                     tokens[j] = <<"--port">> /\ ParseU16(tokens[j + 1]) # None}}

\* C20: the requested port is V when custom_args contains a token `--port=V`
\* or `--port V` with V parseable as an unsigned 16-bit integer, and the
\* configured server_port otherwise; with custom_args `--port 9001` and port
\* 9001 free the launch goes on with port 9001.
C20_RequestedPort ==
    [][PortStep =>
          /\ PortTokenValues(env.custom_args) # {} =>
                 launch'.requested_port \in PortTokenValues(env.custom_args)
          /\ PortTokenValues(env.custom_args) = {} =>
                 launch'.requested_port = env.server_port
          /\ (env.custom_args = <<"--port", " ", "9001">> /\ 9001 \notin env.occupied) =>
                 launch'.pc = "port" /\ launch'.final_port = 9001]_vars

\* C21: the custom arguments of the command are the tokens of custom_args split
\* at the spaces outside quotes, a quoted stretch (which may hold spaces and
\* the other quote character) staying in its token without the two quotes
\* around it; an unterminated quote still gives its partial token; and
\* `--foo "a b" --bar` gives [--foo, a b, --bar].
C21_QuotedTokens ==
    [][(PortStep /\ launch'.pc = "port") =>
          /\ launch'.custom_args = SplitPairedQuotes(env.custom_args, <<>>, <<>>, <<>>)
          /\ env.custom_args = QuotedExample =>
                 launch'.custom_args = <<<<"--foo">>, <<"a", Space, "b">>, <<"--bar">>>>]_vars

\* the arrival indices of the lines of a log that carry a tag
IndicesOf(log, tag) == {log[i][2] : i \in {j \in DOMAIN log : log[j][1] = tag}}

\* C22: after the pump has appended n lines to a fresh record, the log is the
\* last min(n, 1000) of them in arrival order, each with the tag of its stream
\* ([OUT] for stdout, [INFO] for stderr), so the lines of one stream keep
\* their order.
C22_LastThousandInOrder ==
    LET log == running_processes[1].output
        n == emitted[1]
        kept == IF n < MaxOutputLines THEN n ELSE MaxOutputLines
    IN /\ Len(unsent[1]) = n
       /\ Len(log) = kept
       /\ \A i \in 1..kept :
            /\ log[i] = unsent[1][n - kept + i]
            /\ log[i][1] \in {"OUT", "INFO"}
            /\ log[i][2] = n - kept + i

\* C22 witness: 1500 lines of both streams have been appended and 1000 are kept
C22_Witness ==
    /\ emitted[1] = 1500
    /\ Len(running_processes[1].output) = MaxOutputLines
    /\ IndicesOf(running_processes[1].output, "OUT") # {}
    /\ IndicesOf(running_processes[1].output, "INFO") # {}

\* C23: a launched record starts as Starting and, under fair scheduling,
\* becomes Running unless it is removed first.
C23_StartingBecomesRunning ==
    \A id \in ProcIds :
        (id \in Records /\ running_processes[id].status = "Starting")
            ~> (id \notin Records \/ running_processes[id].status = "Running")

\* C24: two launch calls that request the same port never both return the
\* same server_port.
C24_NoSharedPort ==
    \A c, d \in ProcIds :
        (c # d /\ CallReturned(c) /\ CallReturned(d))
            => calls[c].final_port # calls[d].final_port

\* C25: when no read fails, the pump leaves its read loop only once both
\* stdout and stderr have reached end-of-stream, so a line arriving on the
\* stream still open is still appended.
C25_LoopEndsAtBothEof ==
    [][(pumpPc[1] = "loop" /\ pumpPc'[1] # "loop") => streams[1] = {}]_vars

\* the pump of id has left its read loop and has not finished
PastLoop(id) == pumpPc[id] \in {"lock", "wait", "mark", "remove"}

\* the record of id is Stopped and its log ends with the exit line
StoppedWithExitLine(id) ==
    LET info == running_processes[id]
    IN /\ info.status = "Stopped"
       /\ info.output # <<>>
       /\ info.output[Len(info.output)][1] = "EXIT"

\* C26: once the pump's read loop has ended and the process has exited, the
\* pump eventually finishes: id is out of the handle map and its record, when
\* no terminate or cleanup has removed it, is Stopped and ends with the exit
\* line.
C26_PumpFinishes ==
    \A id \in ProcIds :
        (PastLoop(id) /\ Dead(id))
            ~> /\ pumpPc[id] = "done"
               /\ id \notin child_processes
               /\ id \in Records => StoppedWithExitLine(id)

\* C27: whenever a terminate_process call returns, for a live, an exited or an
\* unknown identifier and whether or not its kill found a process to end, it
\* returns Ok and the identifier is in neither the handle map nor the
\* metadata map.
C27_TerminateAlwaysOk ==
    [][\A t \in Terms :
          (termPc[t] # "done" /\ termPc'[t] = "done") =>
              /\ termResult'[t] = "Ok"
              /\ termId'[t] \notin child_processes'
              /\ termId'[t] \notin DOMAIN running_processes']_vars

\* C27 witness: one call has killed a running process and returned, another
\* has returned for an identifier no launch issued
C27_Witness ==
    \E t, u \in Terms :
        /\ termPc[t] = "done" /\ termKilled[t] /\ os[termId[t]] = "killed"
        /\ termPc[u] = "done" /\ termId[u] = UnknownId

\* the tasks of the launch, pump and terminate paths (get_process_logs takes
\* and releases the metadata-map lock within one step)
PathTasks == {Term(t) : t \in Terms} \cup {Pump(id) : id \in ProcIds}

\* C28: no launch, pump, terminate or get_output task owns the handle-map
\* lock or the metadata-map lock while it waits for another lock or for a
\* process to be killed or to exit (so no such task owns one of them between
\* two of its steps), and none owns both.
C28_MapLocksNotHeldAcrossWaits ==
    /\ childLock \notin PathTasks
    /\ runLock \notin PathTasks

\* the pump of id records the exit code -1
MarksMinusOne(id) ==
    /\ pumpPc[id] = "mark" /\ pumpPc'[id] = "remove"
    /\ pumpCode[id] = -1
    /\ id \in Records

\* C29: no record ever has the status Failed: a pump that could not take the
\* child or whose wait gave no exit code records Stopped with the exit line
\* of code -1, and a launch whose spawn fails inserts no record.
C29_NeverFailed ==
    /\ [](\A id \in Records : running_processes[id].status # "Failed")
    /\ [][\A id \in ProcIds :
            MarksMinusOne(id) =>
                /\ running_processes'[id].status = "Stopped"
                /\ running_processes'[id].output =
                       Append(running_processes[id].output, ExitMsg(-1))]_vars
    /\ [][(launch.pc = "port" /\ launch'.result = "SpawnFailed") =>
               UNCHANGED running_processes]_vars

\* C29 witness: terminate took the child first, the pump found none and has
\* recorded Stopped with code -1
C29_Witness ==
    \E id \in Records :
        /\ child[id] = "taken"
        /\ \E t \in Terms : termId[t] = id /\ termKilled[t]
        /\ pumpCode[id] = -1
        /\ pumpPc[id] \in {"remove", "done"}
        /\ running_processes[id].status = "Stopped"

\* a step of terminate_process, get_process_logs, cleanup_all_processes or
\* force_cleanup_all_processes
ReachingStep ==
    \/ termPc' # termPc
    \/ pollResult' # pollResult \/ polled' # polled
    \/ caPc' # caPc \/ caQueue' # caQueue
    \/ fcPc' # fcPc \/ fcQueue' # fcQueue \/ fcSteps' # fcSteps

\* C30: a step of launch_model_external changes neither map, no handle and no
\* pump; the identifier it returns is a key of neither map; and no step of
\* terminate, get_output or either cleanup changes the servers it started.
C30_ExternalUntracked ==
    /\ [][external' # external =>
            UNCHANGED <<running_processes, child_processes, handleVars, pumpVars,
                        launchVars, lockVars>>]_vars
    /\ [](external.result = "Ok" =>
            /\ external.process_id \notin child_processes
            /\ external.process_id \notin Records)
    /\ [][ReachingStep => external' = external]_vars

\* C30 witness: a server started in an external terminal is counted, a
\* terminate_process call with the identifier launch_model_external returns
\* has returned, and cleanup_all_processes has drained a registered process
C30_Witness ==
    /\ external.result = "Ok" /\ external.servers = 1
    /\ \E t \in Terms : termPc[t] = "done" /\ termId[t] = external.process_id
    /\ caPc = "done" /\ caDrained # {}

\* the launch step that spawns the server and inserts its record
RegisterStep == launch.pc = "port" /\ launch'.pc = "registered"

\* C31: the command stored in the record is the argument vector the process
\* was spawned with: -m <model_path> --host <host> --port <port> followed by
\* the tokens of custom_args (with or without the executable in front).
C31_CommandIsArgv ==
    [][RegisterStep =>
          LET command == running_processes'[nextId].command
          IN \/ command = launch.args
             \/ command = <<PathText(launch.executable_path)>> \o launch.args]_vars

\* C32: under fair scheduling every terminate_process call and every
\* cleanup_all_processes call that has started eventually returns, whether or
\* not the process exits by itself.
C32_CallsReturn ==
    /\ \A t \in Terms : (termPc[t] # "idle") ~> (termPc[t] = "done")
    /\ (caPc # "idle") ~> (caPc = "done")

\* ------------------------------------------------------ C33: lock cycles
\* every task that takes a lock with lock().await
LockTasks == PathTasks \cup {Cleanup, LaunchTask, SaveTask}

\* the task that owns the lock, or Free
LockOwner(l) ==
    IF l = <<"config">> THEN settings.configLock
    ELSE IF l = <<"model_configs">> THEN settings.modelLock
    ELSE IF l = <<"child_processes">> THEN childLock
    ELSE IF l = <<"running_processes">> THEN runLock
    ELSE handleLock[l[2]]

\* the locks the next step of the task takes with lock().await
LocksAwaited(task) ==
    IF task = LaunchTask
    THEN (IF settings.readPc = "config" THEN {<<"model_configs">>} ELSE {})
         \cup (IF launch.pc = "port" THEN {<<"running_processes">>} ELSE {})
         \cup (IF launch.pc = "registered" /\ \E id \in ProcIds : launchPc[id] = "registered"
               THEN {<<"child_processes">>} ELSE {})
    ELSE IF task = SaveTask
    THEN (IF settings.savePc = "models" THEN {<<"model_configs">>} ELSE {})
    ELSE IF task = Cleanup
    THEN (IF caPc = "counted" THEN {<<"child_processes">>, <<"running_processes">>} ELSE {})
         \cup (IF caPc = "drain" THEN {<<"handle", id>> : id \in caQueue} ELSE {})
    ELSE IF task[1] = "pump"
    THEN (IF pumpPc[task[2]] \in {"start", "loop", "mark"} THEN {<<"running_processes">>}
          ELSE {})
         \cup (IF pumpPc[task[2]] = "lock" THEN {<<"handle", task[2]>>} ELSE {})
         \cup (IF pumpPc[task[2]] = "remove" THEN {<<"child_processes">>} ELSE {})
    ELSE (IF termPc[task[2]] = "lockHandle" /\ termId[task[2]] \in ProcIds
          THEN {<<"handle", termId[task[2]]>>} ELSE {})
         \cup (IF termPc[task[2]] = "meta" THEN {<<"running_processes">>} ELSE {})

\* the tasks that own a lock the task is about to wait for
WaitsOn(task) ==
    {LockOwner(l) : l \in LocksAwaited(task)} \ {Free, task}

\* the tasks reached from the set by at most n steps of WaitsOn
RECURSIVE WaitChain(_, _)
WaitChain(tasks, n) ==
    IF n = 0 THEN tasks
    ELSE WaitChain(tasks \cup UNION {WaitsOn(t) : t \in tasks \cap LockTasks}, n - 1)

\* C33: in no reachable state do tasks wait on each other's locks in a cycle:
\* following, from any task, the owners of the locks it is about to wait for
\* never leads back to that task, across the config, model-config, handle-map,
\* metadata-map and per-process handle locks; the forced cleanup only tries
\* locks, so it waits for none and a chain that reaches it ends there.
C33_NoLockCycle ==
    \A task \in LockTasks :
        \A other \in WaitsOn(task) : task \notin WaitChain({other}, Cardinality(LockTasks))

\* C33 witness: cleanup_all waits for the handle map owned by a terminate call
\* that waits for the handle owned by the pump, while save_settings is under
\* way: a chain of two waits that does not close
C33_Witness ==
    /\ settings.savePc = "models"
    /\ \E t \in Terms :
           /\ Term(t) \in WaitsOn(Cleanup)
           /\ Pump(termId[t]) \in WaitsOn(Term(t))
           /\ WaitsOn(Pump(termId[t])) = {}

\* C34: for every requested port P, find_available_port returns a port in
\* P .. min(P+10, 65535): with P within 10 of 65535 and the ports up to 65535
\* occupied, the probe counter neither overflows (no panic) nor wraps to a low
\* port, and the distance port - P does not underflow.
C34_ProbeStaysInRange ==
    [][PortStep =>
          LET P == launch'.requested_port
              last == IF P + ProbeLimit <= U16Max THEN P + ProbeLimit ELSE U16Max
          IN /\ launch'.result # "Panic"
             /\ launch'.pc = "port"
             /\ launch'.final_port \in P..last]_vars

\* the values of the `--port V` pairs and `--port=V` elements of an argument
\* vector, V read as an unsigned 16-bit integer
ArgvPortValues(argv) ==
    {ParseU16(argv[i + 1])[1] :
         i \in {j \in 1..(Len(argv) - 1) :
                  argv[j] = <<"--port">> /\ ParseU16(argv[j + 1]) # None}}
    \cup
    {ParseU16(SubSeq(argv[i], 3, Len(argv[i])))[1] :
         i \in {j \in 1..Len(argv) :
                  /\ Len(argv[j]) >= 3
                  /\ argv[j][1] = "--port" /\ argv[j][2] = "="
                  /\ ParseU16(SubSeq(argv[j], 3, Len(argv[j]))) # None}}

\* C35: the port a launch reports is the port the server is told to bind: when
\* the process is registered, every --port value of the argument vector given
\* to it equals the port of the record, which is the server_port returned,
\* also when custom_args names a port that is occupied and the allocator
\* moved to another one.
C35_ArgvPortIsReported ==
    [][RegisterStep =>
          \A v \in ArgvPortValues(launch.args) :
              /\ v = running_processes'[nextId].port
              /\ v = launch'.final_port]_vars

\* the identifiers of registered processes for which a terminate call has returned
TerminateReturned == {termId[t] : t \in {u \in Terms : termPc[u] = "done"}} \cap ProcIds

\* C36: once terminate(id) has returned, id is in neither the handle map nor
\* the metadata map, in that state and in every later one (a returned call
\* stays returned): the pump still running for the process does not create
\* the record again when it sets Running, appends output or records the exit.
C36_TerminatedStaysGone ==
    \A id \in TerminateReturned : Gone(id)

\* C36 witness: terminate has returned for a process whose pump has not yet
\* set Running, so all three of the pump's writes are still to come
C36_Witness ==
    \E id \in TerminateReturned : pumpPc[id] = "start"

\* id's record and handle-map entry are the same before and after the step
SameEntries(id) ==
    /\ (id \in Records) = (id \in DOMAIN running_processes')
    /\ id \in Records => running_processes'[id] = running_processes[id]
    /\ (id \in child_processes) = (id \in child_processes')

\* a step of terminate call t, and a get_process_logs call
TermStep(t) == termPc'[t] # termPc[t]
LogsStep == pollResult' # pollResult \/ polled' # polled

\* C37: a step of terminate(id) and a get_output(id) call leave the record
\* (status, log, cursor) and the handle-map entry of every other identifier
\* unchanged, and get_output(id) changes nothing of id's own record except the
\* cursor, and no handle-map entry at all.
C37_OtherIdsUntouched ==
    /\ [][\A t \in Terms :
            TermStep(t) => \A other \in ProcIds \ {termId'[t]} : SameEntries(other)]_vars
    /\ [][LogsStep =>
            /\ \A other \in ProcIds \ {pollResult'.id} : SameEntries(other)
            /\ child_processes' = child_processes
            /\ (pollResult'.id \in Records) = (pollResult'.id \in DOMAIN running_processes')
            /\ pollResult'.id \in Records =>
                   [running_processes'[pollResult'.id] EXCEPT
                        !.last_sent_line = running_processes[pollResult'.id].last_sent_line]
                     = running_processes[pollResult'.id]]_vars

\* C37 witness: terminate has returned for one process and get_output has
\* delivered lines of the other, whose record and handle entry are in place
C37_Witness ==
    \E id \in ProcIds :
        /\ termPc[1] = "done" /\ termId[1] \in ProcIds \ {id}
        /\ pollResult.id = id /\ pollResult.ok /\ pollResult.advance > 0
        /\ id \in Records /\ id \in child_processes
        /\ running_processes[id].output # <<>>

\* C38: in every reachable state the cursor (last_sent_line) of every record
\* is at least 0 and at most the length of that record's log, whatever the
\* order of the pump's appends, the trimming and the get_output polls.
C38_CursorWithinLog ==
    \A id \in Records :
        /\ running_processes[id].last_sent_line >= 0
        /\ running_processes[id].last_sent_line <= Len(running_processes[id].output)

\* C38 witness: a poll left the cursor at the end of a full log, and a line
\* appended since then made the log drop its oldest line
C38_Witness ==
    /\ 1 \in Records
    /\ running_processes[1].last_sent_line = MaxOutputLines
    /\ Len(running_processes[1].output) = MaxOutputLines
    /\ emitted[1] > MaxOutputLines
    /\ unsent[1] # <<>>

\* everything but the value get_process_logs returns
StateButResult ==
    <<running_processes, child_processes, handleVars, lockVars, procVars, launchVars,
      pumpVars, termVars, caVars, fcVars, polled, unsent, setupVars>>

\* C39: get_output(id) for an identifier absent from the metadata map returns
\* the error 'Process not found' and changes no state; for an identifier that
\* is present it returns Ok with is_running true exactly when the status of
\* the record is Starting or Running.
C39_NotFoundOrRunningFlag ==
    [][LogsStep =>
          LET id == pollResult'.id
          IN /\ id \notin Records =>
                    /\ ~pollResult'.ok
                    /\ pollResult'.output = <<>>
                    /\ UNCHANGED StateButResult
             /\ id \in Records =>
                    /\ pollResult'.ok
                    /\ pollResult'.is_running =
                           (running_processes[id].status \in {"Starting", "Running"})]_vars

\* C39 witness: get_output was called for a process whose record terminate
\* has removed, and returned the error
C39_Witness ==
    /\ pollResult.id \in ProcIds
    /\ ~pollResult.ok
    /\ pollResult.id \notin Records
    /\ termPc[1] = "done" /\ termId[1] = pollResult.id

====
